---- MODULE Spec2Model ----
(***************************************************************************)
(* Tool-dispatch servers of the prompt-stack registry: the Google          *)
(* Workspace MCP server (account-scoped handle caches), the Zoho Mail      *)
(* stdio server, the Notion server, the video-transcribe server and the    *)
(* Google AI server.  Each server is its own operating-system process;     *)
(* the variable `stack` says which process a behaviour is about.           *)
(***************************************************************************)
EXTENDS Integers, Sequences, FiniteSets, TLC

VARIABLES
    stack,            \* which server process this behaviour is
    calls,            \* tool calls handled so far (bounded by MaxCalls)
    last,             \* request and result of the tool call handled last
    ACCOUNTS_DIR,     \* google: accounts/<name>/token.json, in iterdir order
    current_account,  \* google: _current_account
    cache,            \* google: _auth, _gmail, _sheets, _docs, _drive, _calendar
    switches,         \* google: successful switch_account calls so far
    token_file,       \* zoho: the content of token.json
    ENV,              \* notion: .env (NOTION_API_KEY set, the DB_ aliases)
    notion_client,    \* notion: _client is set
    databases,        \* notion: _databases
    DATABASES_PATH,   \* notion: databases.json
    running,          \* stdio servers: main's loop has not ended
    wire,             \* stdio servers: the line read last and what was written for it
    model_cache,      \* whisper: _model_cache, the instance kept for each model size
    loads,            \* whisper: WhisperModel objects constructed so far, by size
    document,         \* ms-office: the .docx at `path` (its body paragraphs' texts)
    output_file,      \* ms-office: the .docx at `output`
    dataframes,       \* data-analysis: _dataframes, the tables stored by name
    exported          \* data-analysis: the paths charts and exports were written to

vars == <<stack, calls, last, ACCOUNTS_DIR, current_account, cache, switches,
          token_file, ENV, notion_client, databases, DATABASES_PATH, running, wire,
          model_cache, loads, document, output_file, dataframes, exported>>

notionVars == <<ENV, notion_client, databases, DATABASES_PATH>>

gwVars == <<ACCOUNTS_DIR, current_account, cache, switches>>

ioVars == <<running, wire>>

\* The state of the servers added after the first five.
extVars == <<model_cache, loads, document, output_file, dataframes, exported>>

whisperVars == <<model_cache, loads>>

officeVars == <<document, output_file>>

dataVars == <<dataframes, exported>>

(* ------------------------------ bounds -------------------------------- *)

MaxCalls == 3

MaxSwitches == 2

(* ------------------------------ helpers ------------------------------- *)

None == "None"

Range(s) == {s[i] : i \in 1..Len(s)}

Contains(text, tok) == \E i \in 1..Len(text) : text[i] = tok

\* The first key of `keys` (in order) that `arguments` does not hold, or None.
RECURSIVE FirstMissing(_, _)
FirstMissing(keys, arguments) ==
    IF keys = <<>> THEN None
    ELSE IF Head(keys) \notin DOMAIN arguments THEN Head(keys)
    ELSE FirstMissing(Tail(keys), arguments)

\* str(KeyError(k)) is the key in quotes.
KeyErrorText(k) == <<"'", k, "'">>

\* The text a vendor, a library or a subprocess attaches to its failure.
VendorErrorText == "<vendor error text>"

AuthErrorText == "<authentication error text>"

NoArgs == [k \in {} |-> "string"]

(* --------------------- Google Workspace: state ------------------------ *)

Accounts == {"personal", "work"}

Slots == {"_auth", "_gmail", "_sheets", "_docs", "_drive", "_calendar"}

\* A cached object: the account whose credential paths it was built from
\* ("legacy" for the fallback paths), the number of account switches that
\* had happened when it was constructed, and whether its credentials (auth)
\* or its service (a vendor client) are set.
NoHandle == [acct |-> None, gen |-> 0, ok |-> FALSE]

get_available_accounts == ACCOUNTS_DIR

\* The value get_current_account returns, which it also stores in
\* _current_account when that was unset.
get_current_account(cur) ==
    IF cur = None
    THEN (IF Len(get_available_accounts) > 0 THEN get_available_accounts[1] ELSE None)
    ELSE cur

\* (ACCOUNTS_DIR / account_name / "token.json").exists(): the name is joined
\* to the path as it is, so ".." names the server's own directory, where the
\* legacy token.json lies when there is one (env.legacy).
TokenExists(account_name, env) ==
    \/ account_name \in Range(ACCOUNTS_DIR)
    \/ account_name = ".." /\ env.legacy

\* switch_account with the cached _calendar left in place.
switch_account_keeps_calendar(account_name, g, env) ==
    IF ~TokenExists(account_name, env)
    THEN [g |-> g, ret |-> FALSE]
    ELSE [g |-> [current |-> account_name,
                 cache |-> [s \in Slots |->
                              IF s = "_calendar" THEN g.cache[s] ELSE NoHandle]],
          ret |-> TRUE]

switch_account(account_name, g, env) ==
    IF ~TokenExists(account_name, env)
    THEN [g |-> g, ret |-> FALSE]
    ELSE [g |-> [current |-> account_name, cache |-> [s \in Slots |-> NoHandle]],
          ret |-> TRUE]

get_auth(g) ==
    IF g.cache["_auth"] # NoHandle
    THEN [g |-> g, ret |-> g.cache["_auth"]]
    ELSE LET account == get_current_account(g.current)
             a == [acct |-> IF account # None THEN account ELSE "legacy",
                   gen |-> switches, ok |-> FALSE]
         IN  [g |-> [current |-> account,
                     cache |-> [g.cache EXCEPT !["_auth"] = a]],
              ret |-> a]

\* get_gmail, get_sheets, get_docs, get_drive, get_calendar: the cached
\* client, or a new one built on get_auth(); the client's constructor calls
\* auth.get_service, which authenticates when the auth object has no
\* credentials yet, then builds the service (None on an HttpError).
\* authenticate may raise, before or after it has stored the credentials it
\* read from the token file.
get_client(slot, g, env) ==
    IF g.cache[slot] # NoHandle
    THEN [g |-> g, ret |-> g.cache[slot], auth |-> NoHandle, raised |-> FALSE]
    ELSE LET r == get_auth(g)
         IN  IF ~r.ret.ok /\ env.auth # "ok"
             THEN LET a1 == [r.ret EXCEPT !.ok = (env.auth = "raise_creds_set")]
                  IN  [g |-> [r.g EXCEPT !.cache["_auth"] = a1],
                       ret |-> NoHandle, auth |-> a1, raised |-> TRUE]
             ELSE LET a2 == [r.ret EXCEPT !.ok = TRUE]
                      h == [acct |-> a2.acct, gen |-> switches, ok |-> env.buildOk]
                  IN  [g |-> [r.g EXCEPT !.cache =
                                [r.g.cache EXCEPT !["_auth"] = a2, ![slot] = h]],
                       ret |-> h, auth |-> a2, raised |-> FALSE]

get_gmail(g, env) == get_client("_gmail", g, env)

get_sheets(g, env) == get_client("_sheets", g, env)

get_docs(g, env) == get_client("_docs", g, env)

get_drive(g, env) == get_client("_drive", g, env)

get_calendar(g, env) == get_client("_calendar", g, env)

(* --------------------- Google Workspace: tools ------------------------ *)

Tool(name, properties, required) ==
    [name |-> name, properties |-> properties, required |-> required]

\* list_tools: name, declared properties (with their types), required keys.
GWTools == <<
    Tool("account_list", NoArgs, <<>>),
    Tool("account_switch", [account |-> "string"], <<"account">>),
    Tool("account_current", NoArgs, <<>>),
    Tool("gmail_send", [to |-> "string", subject |-> "string", body |-> "string"],
         <<"to", "subject", "body">>),
    Tool("gmail_draft", [to |-> "string", subject |-> "string", body |-> "string"],
         <<"to", "subject", "body">>),
    Tool("gmail_search", [query |-> "string", max_results |-> "integer"], <<"query">>),
    Tool("sheets_read", [spreadsheet_id |-> "string", range |-> "string"],
         <<"spreadsheet_id", "range">>),
    Tool("sheets_write",
         [spreadsheet_id |-> "string", range |-> "string", values |-> "array"],
         <<"spreadsheet_id", "range", "values">>),
    Tool("sheets_append",
         [spreadsheet_id |-> "string", range |-> "string", values |-> "array"],
         <<"spreadsheet_id", "range", "values">>),
    Tool("docs_create", [title |-> "string", content |-> "string"], <<"title">>),
    Tool("docs_read", [document_id |-> "string"], <<"document_id">>),
    Tool("docs_insert_image",
         [document_id |-> "string", image_url |-> "string", index |-> "integer"],
         <<"document_id", "image_url">>),
    Tool("drive_list",
         [query |-> "string", folder_id |-> "string", max_results |-> "integer"], <<>>),
    Tool("drive_upload",
         [file_path |-> "string", folder_id |-> "string", name |-> "string"],
         <<"file_path">>),
    Tool("drive_make_public", [file_id |-> "string"], <<"file_id">>),
    Tool("drive_delete", [file_id |-> "string"], <<"file_id">>),
    Tool("gmail_send_with_attachment",
         [to |-> "string", subject |-> "string", body |-> "string",
          attachments |-> "array"],
         <<"to", "subject", "body", "attachments">>),
    Tool("calendar_list", [days |-> "integer", max_results |-> "integer"], <<>>),
    Tool("calendar_create",
         [summary |-> "string", start |-> "string", end |-> "string",
          description |-> "string", location |-> "string"],
         <<"summary", "start", "end">>),
    Tool("calendar_quick_add", [text |-> "string"], <<"text">>),
    Tool("calendar_delete", [event_id |-> "string"], <<"event_id">>) >>

\* call_tool: the getter each branch calls first.
GWSlotOf(name) ==
    CASE name \in {"gmail_send", "gmail_draft", "gmail_search",
                   "gmail_send_with_attachment"} -> "_gmail"
      [] name \in {"sheets_read", "sheets_write", "sheets_append"} -> "_sheets"
      [] name \in {"docs_create", "docs_read", "docs_insert_image"} -> "_docs"
      [] name \in {"drive_list", "drive_upload", "drive_make_public",
                   "drive_delete"} -> "_drive"
      [] name \in {"calendar_list", "calendar_create", "calendar_quick_add",
                   "calendar_delete"} -> "_calendar"
      [] OTHER -> None

\* call_tool: the keys each branch reads as arguments["key"], in the order
\* Python evaluates them, before the vendor method is entered.
GWSubscripts(name) ==
    CASE name \in {"gmail_send", "gmail_draft"} -> <<"to", "subject", "body">>
      [] name = "gmail_search" -> <<"query">>
      [] name = "sheets_read" -> <<"spreadsheet_id", "range">>
      [] name \in {"sheets_write", "sheets_append"} ->
            <<"spreadsheet_id", "range", "values">>
      [] name = "docs_create" -> <<"title">>
      [] name = "docs_read" -> <<"document_id">>
      [] name = "docs_insert_image" -> <<"document_id", "image_url">>
      [] name = "drive_upload" -> <<"file_path">>
      [] name \in {"drive_make_public", "drive_delete"} -> <<"file_id">>
      [] name = "gmail_send_with_attachment" ->
            <<"to", "subject", "body", "attachments">>
      [] name = "calendar_create" -> <<"summary", "start", "end">>
      [] name = "calendar_quick_add" -> <<"text">>
      [] name = "calendar_delete" -> <<"event_id">>
      [] OTHER -> <<>>

\* call_tool: the text returned once the vendor method has returned; `out` is
\* "ok", or "http_error" when the module method caught an HttpError and
\* returned None, False or [].
GWShape(name, out) ==
    LET v(x) == IF out = "ok" THEN x ELSE "None"
    IN
    CASE name = "gmail_send" ->
            IF out = "ok" THEN <<"Email sent successfully. Message ID: ", "id">>
            ELSE <<"Failed to send email">>
      [] name = "gmail_draft" ->
            <<"Draft created successfully. Draft ID: ", v("draft")>>
      [] name = "gmail_search" -> <<IF out = "ok" THEN "json(results)" ELSE "[]">>
      [] name = "sheets_read" -> <<IF out = "ok" THEN "json(data)" ELSE "null">>
      [] name = "sheets_write" -> <<"Updated ", v("n"), " cells">>
      [] name = "sheets_append" -> <<"Appended ", v("updates"), " rows">>
      [] name = "docs_create" -> <<"Document created. ID: ", v("doc_id")>>
      [] name = "docs_read" ->
            IF out = "ok" THEN <<"content">>
            ELSE <<"Error: ", "validation error for TextContent">>
      [] name = "docs_insert_image" ->
            IF out = "ok" THEN <<"Image inserted into document">>
            ELSE <<"Failed to insert image">>
      [] name = "drive_list" -> <<IF out = "ok" THEN "json(files)" ELSE "null">>
      [] name = "drive_upload" -> <<"File uploaded. ID: ", v("file_id")>>
      [] name = "drive_make_public" ->
            IF out = "ok" THEN <<"File is now public.", "public_url">>
            ELSE <<"Failed to make file public">>
      [] name = "drive_delete" ->
            IF out = "ok" THEN <<"File deleted successfully">>
            ELSE <<"Failed to delete file">>
      [] name = "gmail_send_with_attachment" ->
            IF out = "ok" THEN <<"Email sent with attachments. Message ID: ", "id">>
            ELSE <<"Failed to send email with attachments">>
      [] name = "calendar_list" ->
            IF out = "ok" THEN <<"Upcoming events:", "events">>
            ELSE <<"No upcoming events">>
      [] name \in {"calendar_create", "calendar_quick_add"} ->
            IF out = "ok" THEN <<"Event created: ", "summary">>
            ELSE <<"Failed to create event">>
      [] name = "calendar_delete" ->
            IF out = "ok" THEN <<"Event deleted successfully">>
            ELSE <<"Failed to delete event">>

(* ------------------- requests, results, environment ------------------- *)

\* An argument value: its JSON type and, for the strings that matter, its text.
Val(t) == [type |-> t, val |-> "x"]

WrongType(t) == IF t = "string" THEN "integer" ELSE "string"

Without(f, k) == [j \in DOMAIN f \ {k} |-> f[j]]

With(f, k, v) == [j \in DOMAIN f \cup {k} |-> IF j = k THEN v ELSE f[j]]

Valid(tool) == [k \in Range(tool.required) |-> Val(tool.properties[k])]

\* The argument mappings tried for a listed tool: the minimal valid one, the
\* one holding every declared key, one without each required key, one with
\* each declared key wrongly typed, and one with a key the schema does not
\* declare.
ArgChoices(tool) ==
    {Valid(tool), [k \in DOMAIN tool.properties |-> Val(tool.properties[k])]}
    \cup {Without(Valid(tool), k) : k \in Range(tool.required)}
    \cup {With(Valid(tool), k, Val(WrongType(tool.properties[k]))) :
            k \in DOMAIN tool.properties}
    \cup {With(Valid(tool), "undeclared_key", Val("string"))}

UnlistedTool == "nonexistent_tool"

\* What the world outside the process does during one tool call.  The
\* discovery documents ship with the client library, so build() is taken to
\* succeed.  legacy says whether the legacy token.json lies next to the
\* server; only account_switch reads it, and it reads nothing else.
Env == [auth : {"ok", "raise", "raise_creds_set"},
        buildOk : {TRUE},
        vendor : {"ok", "http_error", "raise"},
        legacy : {TRUE}]
       \cup {[auth |-> "ok", buildOk |-> TRUE, vendor |-> "ok", legacy |-> FALSE]}

\* A tool call's result as its caller sees it.
Result(text, isError) ==
    [text |-> text, isError |-> isError, escaped |-> FALSE,
     called |-> FALSE, outcome |-> "none", got |-> NoHandle, gotAuth |-> NoHandle,
     http |-> 0, refreshes |-> 0, retries |-> 0, failedAt |-> 0, used |-> {}]

\* A tools/call request; paramsKind and argsKind say whether params and
\* params["arguments"] are JSON objects ("map") or another JSON value.
Request(tool, arguments) ==
    [tool |-> tool, arguments |-> arguments, paramsKind |-> "map", argsKind |-> "map"]

ResultKeys == DOMAIN Result(<<>>, FALSE)

\* The request and the result of a handled call, as `last` keeps them.
Handled(req, r) == req @@ [k \in ResultKeys |-> r[k]]

NoCall == Handled(Request(None, NoArgs), Result(<<>>, FALSE))

\* What a stdio loop did with one input line: the kind of line, the number of
\* response lines written for it, the request's id and the response's "jsonrpc"
\* and "id" members, and the response's other top-level keys.
Wire(line, written, reqId, jsonrpc, id, keys) ==
    [line |-> line, written |-> written, reqId |-> reqId,
     jsonrpc |-> jsonrpc, id |-> id, keys |-> keys]

NoWire == Wire("none", 0, None, None, None, {})

(* ------------------ Google Workspace: call_tool ----------------------- *)

RECURSIVE AccountLines(_, _)
AccountLines(accounts, current) ==
    IF accounts = <<>> THEN <<>>
    ELSE (IF Head(accounts) = current
          THEN <<Head(accounts), " (active)">> ELSE <<Head(accounts)>>)
         \o AccountLines(Tail(accounts), current)

\* The branches of call_tool that go through a vendor client.
GWClientBranch(name, arguments, g, env) ==
    LET f == get_client(GWSlotOf(name), g, env)
        miss == FirstMissing(GWSubscripts(name), arguments)
        out == IF f.ret.ok THEN env.vendor ELSE "raise"
    IN  IF f.raised
        THEN [g |-> f.g, switched |-> FALSE]
             @@ [Result(<<"Error: ", AuthErrorText>>, FALSE) EXCEPT !.gotAuth = f.auth]
        ELSE IF miss # None
        THEN [g |-> f.g, switched |-> FALSE]
             @@ [Result(<<"Error: ">> \o KeyErrorText(miss), FALSE)
                   EXCEPT !.got = f.ret, !.gotAuth = f.auth]
        ELSE [g |-> f.g, switched |-> FALSE]
             @@ [Result(IF out = "raise" THEN <<"Error: ", VendorErrorText>>
                        ELSE GWShape(name, out), FALSE)
                   EXCEPT !.got = f.ret, !.gotAuth = f.auth,
                          !.called = TRUE, !.outcome = out]

call_tool(name, arguments, g, env) ==
    CASE name = "account_list" ->
            LET current == get_current_account(g.current)
            IN  [g |-> [g EXCEPT !.current = current], switched |-> FALSE]
                @@ Result(<<"Available Google accounts:">>
                          \o AccountLines(get_available_accounts, current)
                          \o (IF get_available_accounts = <<>>
                              THEN <<"  No accounts configured. Run auth flow to add one.">>
                              ELSE <<>>), FALSE)
      [] name = "account_switch" ->
            IF "account" \notin DOMAIN arguments
            THEN [g |-> g, switched |-> FALSE]
                 @@ Result(<<"Error: ">> \o KeyErrorText("account"), FALSE)
            ELSE IF arguments["account"].type # "string"
            THEN [g |-> g, switched |-> FALSE]
                 @@ Result(<<"Error: ", "unsupported operand type(s) for /">>, FALSE)
            ELSE LET account_name == arguments["account"].val
                     r == switch_account(account_name, g, env)
                 IN  IF r.ret
                     THEN [g |-> r.g, switched |-> TRUE]
                          @@ Result(<<"Switched to account: ", account_name>>, FALSE)
                     ELSE [g |-> r.g, switched |-> FALSE]
                          @@ Result(<<"Account '", account_name, "' not found. Available: ">>
                                    \o get_available_accounts, FALSE)
      [] name = "account_current" ->
            LET current == get_current_account(g.current)
                g1 == [g EXCEPT !.current = current]
                f == get_gmail(g1, env)
                out == IF f.ret.ok THEN env.vendor ELSE "raise"
            IN  IF current = None
                THEN [g |-> g1, switched |-> FALSE] @@ Result(<<"No account configured">>, FALSE)
                ELSE IF f.raised
                THEN [g |-> f.g, switched |-> FALSE]
                     @@ [Result(<<"Current account: ", current>>, FALSE)
                           EXCEPT !.gotAuth = f.auth]
                ELSE [g |-> f.g, switched |-> FALSE]
                     @@ [Result(IF out = "ok"
                                THEN <<"Current account: ", current, "Email: ", "email">>
                                ELSE <<"Current account: ", current>>, FALSE)
                           EXCEPT !.got = f.ret, !.gotAuth = f.auth,
                                  !.called = TRUE, !.outcome = out]
      [] GWSlotOf(name) # None -> GWClientBranch(name, arguments, g, env)
      [] OTHER ->
            [g |-> g, switched |-> FALSE] @@ Result(<<"Unknown tool: ", name>>, FALSE)

(* ---------------------- Google Workspace: actions --------------------- *)

\* The tool calls a client may send: every listed tool with each argument
\* mapping of ArgChoices, account_switch naming each account, and a tool
\* that is not listed.
GWRequests ==
    UNION {{Request(GWTools[i].name, a) : a \in ArgChoices(GWTools[i])} :
             i \in 1..Len(GWTools)}
    \cup {Request("account_switch", [account |-> [type |-> "string", val |-> a]]) :
            a \in Accounts \cup {".."}}
    \cup {Request(UnlistedTool, NoArgs)}

\* The environment choices a call consults; the ones it does not consult
\* are held at one value, so that no call is enumerated twice.
GWConsults(req, env, r) ==
    LET slot == IF req.tool = "account_current" THEN "_gmail" ELSE GWSlotOf(req.tool)
        builds == /\ slot # None
                  /\ cache[slot] = NoHandle
                  /\ req.tool = "account_current" =>
                        get_current_account(current_account) # None
        auths == builds /\ ~cache["_auth"].ok
    IN  /\ req # Request("account_switch", [account |-> [type |-> "string", val |-> ".."]])
               => env.legacy
        /\ ~auths => env.auth = "ok"
        /\ ~(builds /\ env.auth = "ok") => env.buildOk
        /\ (~r.called \/ ~r.got.ok) => env.vendor = "ok"

\* The result r of a request leaves the server, with the globals as the call
\* left them.
GWServe(req, env, r) ==
    /\ GWConsults(req, env, r)
    /\ r.switched => switches < MaxSwitches
    /\ current_account' = r.g.current
    /\ cache' = r.g.cache
    /\ switches' = IF r.switched THEN switches + 1 ELSE switches
    /\ last' = Handled(req, r)

\* One tools/call request served by call_tool.
GWCallTool ==
    /\ stack = "google"
    /\ last = NoCall
    /\ calls < MaxCalls
    /\ \E req \in GWRequests, env \in Env :
         GWServe(req, env, call_tool(req.tool, req.arguments,
                                     [current |-> current_account, cache |-> cache], env))
    /\ calls' = calls + 1
    /\ UNCHANGED <<extVars, stack, ACCOUNTS_DIR, token_file, notionVars, ioVars>>

\* The result goes back to the client and the server waits for the next
\* request; a stdio loop that has not ended is back at reading a line.
Respond ==
    /\ last # NoCall \/ (running /\ wire # NoWire)
    /\ last' = NoCall
    /\ wire' = IF running THEN NoWire ELSE wire
    /\ UNCHANGED <<extVars, stack, calls, ACCOUNTS_DIR, current_account, cache, switches,
                   token_file, notionVars, running>>

\* The out-of-band authentication flow creates accounts/<a>/token.json; the
\* directory listing may show the new entry at any position.
GWAddAccount ==
    /\ stack = "google"
    /\ \E a \in Accounts \ Range(ACCOUNTS_DIR), i \in 0..Len(ACCOUNTS_DIR) :
         ACCOUNTS_DIR' = SubSeq(ACCOUNTS_DIR, 1, i) \o <<a>>
                         \o SubSeq(ACCOUNTS_DIR, i + 1, Len(ACCOUNTS_DIR))
    /\ UNCHANGED <<extVars, stack, calls, last, current_account, cache, switches, token_file,
                   notionVars, ioVars>>

(* ------------------------ Zoho Mail: ZohoAuth ------------------------- *)

\* dict.get: the value under k, "null" (None) when the key is absent.
Get(d, k) == IF k \in DOMAIN d THEN d[k] ELSE "null"

\* A ZohoAuth object with the ZohoMail built on it, during one tools/call:
\* token_data and the attributes _load_token fills, the token file as it is
\* on disk, whether _base_url is set, the vendor HTTP requests issued and the
\* calls of refresh_token so far, the environment choices consulted, and the
\* exception in flight (<<>> when none; excHttp says it is a
\* requests.exceptions.HTTPError).  An absent token file and a file holding
\* no keys both leave token_data falsy and are one value here.
ZohoAuth(file) ==
    [token_data |-> file,
     account_id |-> Get(file, "account_id"),
     primary_email |-> Get(file, "primary_email"),
     display_name |-> Get(file, "display_name"),
     signature_id |-> Get(file, "signature_id"),
     signature_content |-> Get(file, "signature_content"),
     file |-> file, base_url |-> FALSE,
     http |-> 0, refreshes |-> 0, retries |-> 0, failedAt |-> 0, used |-> {},
     exc |-> <<>>, excHttp |-> FALSE]

Ok(m) == m.exc = <<>>

Raise(m, text) == [m EXCEPT !.exc = text, !.excHttp = FALSE]

RaiseHTTPError(m) == [m EXCEPT !.exc = <<VendorErrorText>>, !.excHttp = TRUE]

\* is_authenticated answering True whatever token_data holds.
is_authenticated_always(m) == TRUE

is_authenticated(m) == "access_token" \in DOMAIN m.token_data

save_token(m) == IF Ok(m) THEN [m EXCEPT !.file = m.token_data] ELSE m

get_headers(m) ==
    IF ~Ok(m) THEN m
    ELSE IF "access_token" \in DOMAIN m.token_data THEN m
    ELSE Raise(m, <<"Not authenticated. Please run authentication flow.">>)

\* GET /api/accounts: env.accounts is "ok" (an account with sendMailDetails),
\* "no_details" (an account without them), "empty" (no account in the reply)
\* or "error" (an error status).
fetch_account_id(m, env) ==
    LET h == get_headers(m)
        m1 == [h EXCEPT !.http = @ + 1, !.used = @ \cup {"accounts"}]
        m2 == [m1 EXCEPT !.account_id = "acc", !.primary_email = "me@zoho",
                         !.display_name = IF env.accounts = "ok" THEN "Display Name" ELSE @,
                         !.signature_id = IF env.accounts = "ok" THEN "sig-id" ELSE @]
    IN  IF ~Ok(h) THEN h
        ELSE CASE env.accounts = "error" -> RaiseHTTPError(m1)
               [] env.accounts = "empty" -> m1
               [] OTHER ->
                    [m2 EXCEPT !.token_data =
                        [k \in DOMAIN m2.token_data \cup
                               {"account_id", "primary_email", "display_name", "signature_id"} |->
                            CASE k = "account_id" -> m2.account_id
                              [] k = "primary_email" -> m2.primary_email
                              [] k = "display_name" -> m2.display_name
                              [] k = "signature_id" -> m2.signature_id
                              [] OTHER -> m2.token_data[k]]]

\* GET /api/accounts/signature: env.signature is "ok" (status 200 with a
\* signature) or "none" (another status, or no signature).
fetch_signature(m, env) ==
    LET h == get_headers(m)
        m1 == [h EXCEPT !.http = @ + 1, !.used = @ \cup {"signature"}]
    IN  IF ~Ok(h) THEN h
        ELSE IF env.signature = "none" THEN m1
        ELSE [m1 EXCEPT !.signature_content = "<signature>",
                        !.display_name = "Signature Name",
                        !.token_data =
                            With(With(m1.token_data, "signature_content", "<signature>"),
                                 "display_name", "Signature Name")]

get_account_id(m, env) ==
    IF ~Ok(m) THEN m
    ELSE IF m.account_id = "null" THEN fetch_account_id(m, env) ELSE m

get_primary_email(m, env) ==
    IF ~Ok(m) THEN m
    ELSE IF m.primary_email = "null" THEN save_token(fetch_account_id(m, env)) ELSE m

get_display_name(m, env) ==
    IF ~Ok(m) THEN m
    ELSE IF m.display_name = "null"
         THEN LET s1 == fetch_signature(m, env)
              IN  save_token(IF Ok(s1) /\ s1.display_name = "null"
                             THEN fetch_account_id(s1, env) ELSE s1)
         ELSE m

get_signature_content(m, env) ==
    IF ~Ok(m) THEN m
    ELSE IF m.signature_content = "null" THEN save_token(fetch_signature(m, env)) ELSE m

\* POST /oauth/v2/token with grant_type refresh_token: e.refresh is "ok",
\* "http_error" (an error status) or "no_access_token" (status 200 with a
\* body that holds no access_token).
refresh_token(m, e) ==
    LET m1 == [m EXCEPT !.refreshes = @ + 1]
        m2 == [m1 EXCEPT !.http = @ + 1]
        new_token ==
            (IF e.refresh = "ok" THEN [access_token |-> "refreshed"]
                                 ELSE [error |-> "invalid_code"])
            @@ [refresh_token |-> m.token_data["refresh_token"],
                account_id |-> Get(m.token_data, "account_id")]
    IN  IF "refresh_token" \notin DOMAIN m.token_data
        THEN Raise(m1, <<"No refresh token available. Please re-authenticate.">>)
        ELSE IF e.refresh = "http_error" THEN RaiseHTTPError(m2)
        ELSE save_token([m2 EXCEPT !.token_data = new_token])

(* ------------------------ Zoho Mail: ZohoMail -------------------------- *)

\* The exception _request raises in place of an HTTPError it caught.
APIError(m) ==
    [m EXCEPT !.exc = <<"API Error: ", VendorErrorText, " - ", "<error_data>">>,
              !.excHttp = FALSE]

\* ZohoMail.base_url: the cached URL, or one built on get_account_id().
get_base_url(m, env) ==
    IF m.base_url THEN m
    ELSE LET x == get_account_id(m, env)
         IN  IF Ok(x) THEN [x EXCEPT !.base_url = TRUE] ELSE x

\* _request after the retried request has answered, with a second refresh and
\* a third attempt when the retry came back 401.
request_retried_refreshes_again(resent, e) ==
    LET r2 == refresh_token(resent, e)
        again == [r2 EXCEPT !.http = @ + 1, !.retries = @ + 1]
    IN  IF e.retry = "200" THEN resent
        ELSE IF e.retry = "401" /\ Ok(r2)
        THEN APIError([again EXCEPT !.failedAt = again.http])
        ELSE APIError([resent EXCEPT !.failedAt = resent.http])

\* _request after the retried request has answered: raise_for_status.
request_retried(resent, e) ==
    IF e.retry = "200" THEN resent
    ELSE APIError([resent EXCEPT !.failedAt = resent.http])

\* _request after refresh_token has returned or raised: the headers are read
\* again and the request is sent once more.
request_refreshed(r, e) ==
    IF ~Ok(r) THEN (IF r.excHttp THEN APIError(r) ELSE r)
    ELSE IF ~Ok(get_headers(r)) THEN get_headers(r)
    ELSE request_retried([r EXCEPT !.http = @ + 1, !.retries = @ + 1], e)

\* _request after the first response: a 401 leads to refresh_token.
request_sent(sent, e) ==
    IF e.first = "200" THEN sent
    ELSE IF e.first # "401" THEN APIError(sent)
    ELSE request_refreshed(refresh_token(sent, e), e)

\* _request once the URL is known: the headers are read and the request sent.
request_send(b, e, tag) ==
    IF ~Ok(get_headers(b)) THEN get_headers(b)
    ELSE request_sent([b EXCEPT !.http = @ + 1, !.used = @ \cup {tag}], e)

\* ZohoMail._request; env[tag] = [first, refresh, retry] holds the status of
\* the request, the outcome of the refresh and the status of the retried
\* request, and `tag` names it among the environment choices of the call.
request(m, env, tag) ==
    IF ~Ok(m) THEN m ELSE request_send(get_base_url(m, env), env[tag], tag)

list_folders(m, env, tag) == request(m, env, tag)

send_email(m, env) ==
    request(get_signature_content(get_display_name(get_primary_email(m, env), env), env),
            env, "req1")

create_draft(m, env) == request(m, env, "req1")

search(m, env) == request(m, env, "req1")

list_emails(m, env, folder_id) ==
    IF folder_id # "null" THEN request(m, env, "req1")
    ELSE request(list_folders(m, env, "req1"), env, "req2")

get_email(m, env) == request(list_folders(m, env, "req1"), env, "req2")

(* ---------------------- Zoho Mail: handle_request ---------------------- *)

\* tools/list.
ZohoTools == <<
    Tool("zoho_send_email",
         [to |-> "string", subject |-> "string", body |-> "string",
          cc |-> "string", bcc |-> "string"], <<"to", "subject", "body">>),
    Tool("zoho_create_draft",
         [to |-> "string", subject |-> "string", body |-> "string", cc |-> "string"],
         <<"to", "subject", "body">>),
    Tool("zoho_search_email", [query |-> "string", limit |-> "integer"], <<"query">>),
    Tool("zoho_list_emails",
         [folder_id |-> "string", limit |-> "integer", status |-> "string"], <<>>),
    Tool("zoho_get_email", [message_id |-> "string"], <<"message_id">>),
    Tool("zoho_list_folders", NoArgs, <<>>) >>

\* tools/call: the keys each branch reads as arguments["key"], in order.
ZohoSubscripts(tool_name) ==
    CASE tool_name \in {"zoho_send_email", "zoho_create_draft"} ->
            <<"to", "subject", "body">>
      [] tool_name = "zoho_search_email" -> <<"query">>
      [] tool_name = "zoho_get_email" -> <<"message_id">>
      [] OTHER -> <<>>

\* tools/call: whether the branch reads `arguments` at all.
ZohoReadsArguments(tool_name) ==
    tool_name \in {"zoho_send_email", "zoho_create_draft", "zoho_search_email",
                   "zoho_list_emails", "zoho_get_email"}

\* tools/call: the ZohoMail method of each branch.
ZohoMethod(tool_name, arguments, m, env) ==
    CASE tool_name = "zoho_send_email" -> send_email(m, env)
      [] tool_name = "zoho_create_draft" -> create_draft(m, env)
      [] tool_name = "zoho_search_email" -> search(m, env)
      [] tool_name = "zoho_list_emails" ->
            list_emails(m, env, IF "folder_id" \in DOMAIN arguments
                                THEN arguments["folder_id"].val ELSE "null")
      [] tool_name = "zoho_get_email" -> get_email(m, env)
      [] tool_name = "zoho_list_folders" -> list_folders(m, env, "req1")

\* tools/call: the text of each branch's successful result.
ZohoShape(tool_name) ==
    CASE tool_name = "zoho_send_email" -> <<"Email sent successfully!", "Message ID: ", "id">>
      [] tool_name = "zoho_create_draft" -> <<"Draft created successfully!", "Draft ID: ", "id">>
      [] tool_name \in {"zoho_search_email", "zoho_list_emails"} -> <<"Found ", "n", " emails:">>
      [] tool_name = "zoho_get_email" -> <<"Subject: ", "subject", "--- Body ---", "body">>
      [] tool_name = "zoho_list_folders" -> <<"Mail Folders:", "folders">>

\* The content result of a tools/call after the vendor method ran in m:
\* ZohoOutcome builds it, ZohoReturn chooses between the branch's text and
\* the text of the except clause.
ZohoOutcome(text, isError, m) ==
    [file |-> m.file]
    @@ [Result(text, isError) EXCEPT !.called = TRUE, !.http = m.http,
                                     !.outcome = IF Ok(m) THEN "ok"
                                                 ELSE IF Contains(m.exc, "API Error: ")
                                                 THEN "http_error" ELSE "raise",
                                     !.refreshes = m.refreshes, !.retries = m.retries,
                                     !.failedAt = m.failedAt, !.used = m.used]

\* handle_request for method tools/call.  req.paramsKind and req.argsKind say
\* whether params and params["arguments"] are JSON objects ("map") or another
\* JSON value.
ZohoReturn(req, m) ==
    IF ~Ok(m) THEN ZohoOutcome(<<"Error: ">> \o m.exc, TRUE, m)
    ELSE ZohoOutcome(ZohoShape(req.tool), FALSE, m)

handle_request(req, file, env) ==
    LET auth == ZohoAuth(file)
        miss == FirstMissing(ZohoSubscripts(req.tool), req.arguments)
        listed == req.tool \in {ZohoTools[i].name : i \in 1..Len(ZohoTools)}
    IN  IF req.paramsKind # "map"
        THEN [file |-> file]
             @@ [Result(<<"'list' object has no attribute 'get'">>, FALSE)
                   EXCEPT !.escaped = TRUE]
        ELSE IF ~is_authenticated(auth)
        THEN [file |-> file]
             @@ Result(<<"Error: Not authenticated. Please run authentication first:",
                         "authenticate_interactive()">>, TRUE)
        ELSE IF ~listed
        THEN [file |-> file] @@ Result(<<"Unknown tool: ", req.tool>>, TRUE)
        ELSE IF req.argsKind # "map" /\ ZohoReadsArguments(req.tool)
        THEN [file |-> file]
             @@ Result(<<"Error: ", "list indices must be integers or slices, not str">>, TRUE)
        ELSE IF miss # None
        THEN [file |-> file] @@ Result(<<"Error: ">> \o KeyErrorText(miss), TRUE)
        ELSE ZohoReturn(req, ZohoMethod(req.tool, req.arguments, auth, env))

(* -------------------------- Zoho Mail: actions ------------------------- *)

\* The outcomes of one _request: the status of the request, and after a 401
\* the outcome of the refresh and the status of the retried request.
ReqOutcomes ==
    {[first |-> "200", refresh |-> "ok", retry |-> "200"],
     [first |-> "500", refresh |-> "ok", retry |-> "200"],
     [first |-> "401", refresh |-> "http_error", retry |-> "200"],
     [first |-> "401", refresh |-> "no_access_token", retry |-> "200"],
     [first |-> "401", refresh |-> "ok", retry |-> "200"],
     [first |-> "401", refresh |-> "ok", retry |-> "401"],
     [first |-> "401", refresh |-> "ok", retry |-> "500"]}

ZohoEnv ==
    [accounts : {"ok", "no_details", "empty", "error"},
     signature : {"ok", "none"},
     req1 : ReqOutcomes,
     req2 : ReqOutcomes]

\* The environment choices a call does not consult are held at one value.
ZohoConsults(env, r) ==
    /\ "accounts" \notin r.used => env.accounts = "ok"
    /\ "signature" \notin r.used => env.signature = "ok"
    /\ \A tag \in {"req1", "req2"} \ r.used :
         env[tag] = [first |-> "200", refresh |-> "ok", retry |-> "200"]

ZohoRequests ==
    UNION {{Request(ZohoTools[i].name, a) : a \in ArgChoices(ZohoTools[i])} :
             i \in 1..Len(ZohoTools)}
    \cup {[Request(ZohoTools[i].name, NoArgs) EXCEPT !.argsKind = "list"] :
            i \in 1..Len(ZohoTools)}
    \cup {Request(UnlistedTool, NoArgs),
          [Request(UnlistedTool, NoArgs) EXCEPT !.argsKind = "list"],
          [Request(None, NoArgs) EXCEPT !.paramsKind = "list", !.argsKind = "none"]}

\* The id member of the requests a client sends.
RequestId == "7"

\* The line main writes for a request line of the given method: the reply of
\* handle_request under "result", or under "error" when the reply has that
\* key (the unknown method), both with the request's id; main's own -32603
\* error with a null id when an exception reached it.
ZohoOutput(method, reqId, raised) ==
    IF raised THEN Wire(method, 1, reqId, "2.0", None, {"error"})
    ELSE IF method \in {"initialize", "tools/list", "tools/call"}
    THEN Wire(method, 1, reqId, "2.0", reqId, {"result"})
    ELSE Wire(method, 1, reqId, "2.0", reqId, {"error"})

\* The result r of a request leaves the server: the token file is as the
\* call left it.
ZohoServe(req, env, r) ==
    /\ ZohoConsults(env, r)
    /\ token_file' = r.file
    /\ last' = Handled(req, r)
    /\ wire' = ZohoOutput("tools/call", RequestId, r.escaped)

\* One tools/call request line served by main and handle_request.
ZohoCallTool ==
    /\ stack = "zoho"
    /\ running
    /\ last = NoCall
    /\ wire = NoWire
    /\ calls < MaxCalls
    /\ \E req \in ZohoRequests, env \in ZohoEnv :
         ZohoServe(req, env, handle_request(req, token_file, env))
    /\ calls' = calls + 1
    /\ UNCHANGED <<extVars, stack, gwVars, notionVars, running>>

\* The other lines main reads: a request of another method, a line that is
\* not JSON, JSON that is not an object, bytes that are not UTF-8 (readline
\* raises under the strict error handler and yields surrogates, which
\* json.loads rejects, under surrogateescape), and the end of input.
ZohoLines ==
    {"initialize", "tools/list", "other_method", "malformed", "not_object",
     "undecodable", "eof"}

ZohoMain ==
    /\ stack = "zoho"
    /\ running
    /\ last = NoCall
    /\ wire = NoWire
    /\ \E line \in ZohoLines, reqId \in {RequestId, None},
          errors \in {"strict", "surrogateescape"} :
         /\ line \notin {"initialize", "tools/list", "other_method"} => reqId = None
         /\ line # "undecodable" => errors = "strict"
         /\ running' = (line # "eof")
         /\ wire' =
              CASE line = "eof" -> Wire("eof", 0, None, None, None, {})
                [] line = "malformed" -> Wire(line, 0, None, None, None, {})
                [] line = "undecodable" /\ errors = "surrogateescape" ->
                     Wire(line, 0, None, None, None, {})
                [] line \in {"undecodable", "not_object"} ->
                     ZohoOutput(line, None, TRUE)
                [] OTHER -> ZohoOutput(line, reqId, FALSE)
    /\ UNCHANGED <<extVars, stack, calls, last, gwVars, token_file, notionVars>>

\* The tokens authenticate_interactive (run outside the server) stores:
\* exchange_code keeps the vendor's reply, with or without a refresh token,
\* and adds what _fetch_account_id found.
ZohoTokens ==
    {t @@ [access_token |-> "access", account_id |-> "acc",
           primary_email |-> "me@zoho", display_name |-> d, signature_id |-> d] :
        t \in {NoArgs, [refresh_token |-> "refresh"]},
        d \in {"null", "Display Name"}}

ZohoAuthenticate ==
    /\ stack = "zoho"
    /\ last = NoCall
    /\ token_file = NoArgs
    /\ token_file' \in ZohoTokens
    /\ UNCHANGED <<extVars, stack, calls, last, gwVars, notionVars, ioVars>>

(* ------------------------------ Notion -------------------------------- *)

\* str.lower(): "Tasks" -> "tasks"; the upper-case form "SS" of "ß" -> "ss",
\* while "ß" is its own lower-case form.
Lower(x) ==
    CASE x = "Tasks" -> "tasks"
      [] x = "SS" -> "ss"
      [] OTHER -> x

\* 32 hexadecimal digits once the dashes are dropped.
LooksLikeId(x) == x \in {"0123456789abcdef0123456789abcdef"}

RECURSIVE get_databases(_)
RECURSIVE save_databases(_)
\* n = [client, databases, file]: _client is set; _databases (loaded says it
\* is not None); databases.json (exists says it is there).
get_databases(n) ==
    IF n.databases.loaded THEN n
    ELSE IF n.file.exists
    THEN [n EXCEPT !.databases = [loaded |-> TRUE, dbs |-> n.file.dbs]]
    ELSE save_databases([n EXCEPT !.databases = [loaded |-> TRUE, dbs |-> ENV.aliases]])

save_databases(n) ==
    LET d == get_databases(n)
    IN  IF d.databases.dbs # NoArgs
        THEN [d EXCEPT !.file = [exists |-> TRUE, dbs |-> d.databases.dbs]]
        ELSE d

resolve_database_id(name_or_id, n) ==
    LET dbs == get_databases(n).databases.dbs
    IN  IF Lower(name_or_id) \in DOMAIN dbs THEN dbs[Lower(name_or_id)]
        ELSE IF LooksLikeId(name_or_id) THEN name_or_id
        ELSE None

\* get_client keeping a client object although no API key was found.
notion_get_client_caches_failure(n) ==
    IF n.client THEN [n |-> n, raised |-> FALSE]
    ELSE [n |-> [n EXCEPT !.client = TRUE], raised |-> ~ENV.NOTION_API_KEY]

\* get_client: the cached client, or a new one when an API key is configured.
notion_get_client(n) ==
    IF n.client THEN [n |-> n, raised |-> FALSE]
    ELSE IF ~ENV.NOTION_API_KEY THEN [n |-> n, raised |-> TRUE]
    ELSE [n |-> [n EXCEPT !.client = TRUE], raised |-> FALSE]

\* list_tools.
NotionTools == <<
    Tool("notion_db_list", NoArgs, <<>>),
    Tool("notion_db_add", [name |-> "string", database_id |-> "string"],
         <<"name", "database_id">>),
    Tool("notion_db_remove", [name |-> "string"], <<"name">>),
    Tool("notion_search", [query |-> "string", type |-> "string"], <<"query">>),
    Tool("notion_get_page", [page_id |-> "string"], <<"page_id">>),
    Tool("notion_get_page_content", [page_id |-> "string"], <<"page_id">>),
    Tool("notion_create_page",
         [parent_id |-> "string", title |-> "string", is_database |-> "boolean"],
         <<"parent_id", "title">>),
    Tool("notion_delete_page", [page_id |-> "string"], <<"page_id">>),
    Tool("notion_query_database", [database |-> "string", filter |-> "object"],
         <<"database">>),
    Tool("notion_list_databases", NoArgs, <<>>),
    Tool("notion_append_content", [page_id |-> "string", text |-> "string"],
         <<"page_id", "text">>) >>

\* call_tool: the keys each client branch reads as arguments["key"], in order.
NotionSubscripts(name) ==
    CASE name = "notion_search" -> <<"query">>
      [] name \in {"notion_get_page", "notion_get_page_content", "notion_delete_page"} ->
            <<"page_id">>
      [] name = "notion_create_page" -> <<"parent_id", "title">>
      [] name = "notion_query_database" -> <<"database">>
      [] name = "notion_append_content" -> <<"text", "page_id">>
      [] OTHER -> <<>>

\* The branches after get_client() with the last one left out.
NotionClientTools_without_append ==
    {"notion_search", "notion_get_page", "notion_get_page_content",
     "notion_create_page", "notion_delete_page", "notion_query_database",
     "notion_list_databases"}

NotionClientTools ==
    {"notion_search", "notion_get_page", "notion_get_page_content",
     "notion_create_page", "notion_delete_page", "notion_query_database",
     "notion_list_databases", "notion_append_content"}

\* call_tool of the Notion server; env.vendor is "ok" or "error" (the status
\* of the Notion API request, on which NotionClient._request raises).
notion_call_tool(name, arguments, n, env) ==
    LET dbs == get_databases(n)
        miss(keys) == FirstMissing(keys, arguments)
        c == notion_get_client(n)
        db_id == resolve_database_id(arguments["database"].val, c.n)
        vendor == [Result(IF env.vendor = "ok" THEN <<"json(result)">>
                          ELSE <<"Error: ", "Notion API error: ", VendorErrorText>>, FALSE)
                     EXCEPT !.called = TRUE, !.outcome = env.vendor, !.http = 1]
    IN
    CASE name = "notion_db_list" ->
            [n |-> dbs] @@ Result(IF dbs.databases.dbs # NoArgs
                                  THEN <<"Saved database aliases:", "aliases">>
                                  ELSE <<"No database aliases saved. Use notion_db_add to add one.">>,
                                  FALSE)
      [] name = "notion_db_add" ->
            IF miss(<<"name", "database_id">>) # None
            THEN [n |-> dbs] @@ Result(<<"Error: ">> \o KeyErrorText(miss(<<"name", "database_id">>)), FALSE)
            ELSE IF arguments["name"].type # "string"
            THEN [n |-> dbs] @@ Result(<<"Error: ", "object has no attribute 'lower'">>, FALSE)
            ELSE [n |-> save_databases(
                          [dbs EXCEPT !.databases.dbs =
                              With(@, Lower(arguments["name"].val), arguments["database_id"].val)])]
                 @@ Result(<<"Added alias '", Lower(arguments["name"].val), "' -> ",
                             arguments["database_id"].val>>, FALSE)
      [] name = "notion_db_remove" ->
            IF miss(<<"name">>) # None
            THEN [n |-> dbs] @@ Result(<<"Error: ">> \o KeyErrorText("name"), FALSE)
            ELSE IF arguments["name"].type # "string"
            THEN [n |-> dbs] @@ Result(<<"Error: ", "object has no attribute 'lower'">>, FALSE)
            ELSE IF Lower(arguments["name"].val) \in DOMAIN dbs.databases.dbs
            THEN [n |-> save_databases(
                          [dbs EXCEPT !.databases.dbs = Without(@, Lower(arguments["name"].val))])]
                 @@ Result(<<"Removed alias '", Lower(arguments["name"].val), "'">>, FALSE)
            ELSE [n |-> dbs]
                 @@ Result(<<"Alias '", Lower(arguments["name"].val), "' not found">>, FALSE)
      [] OTHER ->
            IF c.raised
            THEN [n |-> c.n] @@ Result(<<"Error: ", "NOTION_API_KEY not set in .env file">>, FALSE)
            ELSE IF name \notin NotionClientTools
            THEN [n |-> c.n] @@ Result(<<"Unknown tool: ", name>>, FALSE)
            ELSE IF miss(NotionSubscripts(name)) # None
            THEN [n |-> c.n]
                 @@ Result(<<"Error: ">> \o KeyErrorText(miss(NotionSubscripts(name))), FALSE)
            ELSE IF name = "notion_query_database" /\ arguments["database"].type # "string"
            THEN [n |-> get_databases(c.n)]
                 @@ Result(<<"Error: ", "object has no attribute 'lower'">>, FALSE)
            ELSE IF name = "notion_append_content" /\ arguments["text"].type # "string"
            THEN [n |-> c.n] @@ Result(<<"Error: ", "object has no attribute 'split'">>, FALSE)
            ELSE IF name = "notion_query_database" /\ db_id = None
            THEN [n |-> get_databases(c.n)]
                 @@ Result(<<"Database '", arguments["database"].val,
                             "' not found. Available aliases: ">>, FALSE)
            ELSE [n |-> IF name = "notion_query_database" THEN get_databases(c.n) ELSE c.n]
                 @@ vendor

NotionRequests ==
    UNION {{Request(NotionTools[i].name, a) : a \in ArgChoices(NotionTools[i])} :
             i \in 1..Len(NotionTools)}
    \cup {Request("notion_db_add",
                  [name |-> [type |-> "string", val |-> a],
                   database_id |-> [type |-> "string", val |-> d]]) :
            a \in {"tasks", "Tasks"}, d \in {"id-1", "0123456789abcdef0123456789abcdef"}}
    \cup {Request("notion_db_add",
                  [name |-> [type |-> "string", val |-> "ß"],
                   database_id |-> [type |-> "string", val |-> "id-1"]])}
    \cup {Request("notion_db_remove", [name |-> [type |-> "string", val |-> a]]) :
            a \in {"tasks", "Tasks"}}
    \cup {Request("notion_query_database", [database |-> [type |-> "string", val |-> a]]) :
            a \in {"tasks", "Tasks", "SS", "0123456789abcdef0123456789abcdef"}}
    \cup {Request(UnlistedTool, NoArgs)}

\* One tools/call request served by the Notion server's call_tool.
NotionCallTool ==
    /\ stack = "notion"
    /\ last = NoCall
    /\ calls < MaxCalls
    /\ \E req \in NotionRequests, vendor \in {"ok", "error"} :
         LET r == notion_call_tool(req.tool, req.arguments,
                                   [client |-> notion_client, databases |-> databases,
                                    file |-> DATABASES_PATH], [vendor |-> vendor])
         IN  /\ ~r.called => vendor = "ok"
             /\ notion_client' = r.n.client
             /\ databases' = r.n.databases
             /\ DATABASES_PATH' = r.n.file
             /\ last' = Handled(req, r)
    /\ calls' = calls + 1
    /\ UNCHANGED <<extVars, stack, ENV, gwVars, token_file, ioVars>>

\* The user writes NOTION_API_KEY into .env while the server runs; load_env
\* reads the file again on every get_client that finds no cached client.
NotionSetApiKey ==
    /\ stack = "notion"
    /\ last = NoCall
    /\ ~ENV.NOTION_API_KEY
    /\ ENV' = [ENV EXCEPT !.NOTION_API_KEY = TRUE]
    /\ UNCHANGED <<extVars, stack, calls, last, gwVars, token_file, notion_client, databases,
                   DATABASES_PATH, ioVars>>

(* --------------------------- video-transcribe ------------------------- *)

\* The tools handle_tool_call serves; the keys are the ones it reads with
\* params.get, required where the function they go to has no default for them.
VTTools == <<
    Tool("extract_audio_from_video", [video_path |-> "string", output_path |-> "string"],
         <<"video_path", "output_path">>),
    Tool("transcribe_audio", [audio_path |-> "string", output_path |-> "string"],
         <<"audio_path">>),
    Tool("process_video_full", [video_path |-> "string", output_dir |-> "string"],
         <<"video_path">>) >>

\* params.get(key): the value, or None.
ParamsGet(params, k) == IF k \in DOMAIN params THEN params[k] ELSE [type |-> None, val |-> None]

\* extract_audio: env.ffmpeg is "ok", "nonzero" (no output file is written)
\* or "raise" (subprocess.run raises, e.g. on its timeout).
extract_audio(video_path, output_path, env) ==
    IF video_path.type # "string" \/ output_path.type # "string"
    THEN Result(<<"success: False", "error", "expected str, bytes or os.PathLike object">>, FALSE)
    ELSE [Result(CASE env.ffmpeg = "ok" -> <<"success: True", "output_path">>
                   [] env.ffmpeg = "nonzero" ->
                        <<"success: False", "error", "Audio file not created",
                          "stderr", VendorErrorText>>
                   [] OTHER -> <<"success: False", "error", VendorErrorText>>, FALSE)
            EXCEPT !.called = TRUE, !.outcome = env.ffmpeg]

\* transcribe_audio: env.convert is "ok" or "nonzero" (convert_to_wav runs
\* ffmpeg with check=True), env.whisper is "ok" or "nonzero" (run unchecked).
transcribe_audio(audio_path, output_path, env) ==
    IF audio_path.type # "string"
    THEN Result(<<"success: False", "error", "object has no attribute 'endswith'">>, FALSE)
    ELSE IF env.convert = "nonzero"
    THEN [Result(<<"success: False", "error", "Failed to convert to WAV: ",
                   "returned non-zero exit status">>, FALSE)
            EXCEPT !.called = TRUE, !.outcome = "nonzero"]
    ELSE IF output_path.type \notin {"string", None}
    THEN [Result(<<"success: False", "error", "object has no attribute 'endswith'">>, FALSE)
            EXCEPT !.called = TRUE, !.outcome = env.whisper]
    ELSE [Result(<<"success: True", "transcript">>, FALSE)
            EXCEPT !.called = TRUE, !.outcome = env.whisper]

process_video_full(video_path, output_dir, env) ==
    IF video_path.type # "string" \/ output_dir.type \notin {"string", None}
    THEN Result(<<"success: False", "error", "expected str, bytes or os.PathLike object">>, FALSE)
    ELSE LET audio_result == extract_audio(video_path, Val("string"), env)
             transcript_result == transcribe_audio(Val("string"), Val("string"), env)
         IN  IF "success: False" \in Range(audio_result.text) THEN audio_result
             ELSE [Result(<<"success: True", "video_path", "audio", "transcript">>
                          \o transcript_result.text, FALSE)
                     EXCEPT !.called = TRUE, !.outcome = transcript_result.outcome]

\* handle_tool_call, and main's envelope around its result: the envelope says
\* "success": True whenever handle_tool_call returns; an exception from it is
\* caught by main, which answers "success": False.
handle_tool_call(tool_name, params, paramsKind, env) ==
    IF tool_name \notin {VTTools[i].name : i \in 1..Len(VTTools)}
    THEN Result(<<"error", "Unknown tool: ", tool_name>>, FALSE)
    ELSE IF paramsKind # "map"
    THEN [Result(<<"object has no attribute 'get'">>, TRUE) EXCEPT !.escaped = TRUE]
    ELSE CASE tool_name = "extract_audio_from_video" ->
                extract_audio(ParamsGet(params, "video_path"),
                              ParamsGet(params, "output_path"), env)
           [] tool_name = "transcribe_audio" ->
                transcribe_audio(ParamsGet(params, "audio_path"),
                                 ParamsGet(params, "output_path"), env)
           [] OTHER ->
                process_video_full(ParamsGet(params, "video_path"),
                                   ParamsGet(params, "output_dir"), env)

VTEnv == [ffmpeg : {"ok", "nonzero", "raise"}, convert : {"ok", "nonzero"},
          whisper : {"ok", "nonzero"}]

VTRequests ==
    UNION {{Request(VTTools[i].name, a) : a \in ArgChoices(VTTools[i])} :
             i \in 1..Len(VTTools)}
    \cup {[Request(VTTools[i].name, NoArgs) EXCEPT !.paramsKind = "list"] :
            i \in 1..Len(VTTools)}
    \cup {Request(UnlistedTool, NoArgs),
          [Request(UnlistedTool, NoArgs) EXCEPT !.paramsKind = "list"]}

\* The line main prints for one input line: "success" with "result", or
\* with "error" when an exception reached main.
VTOutput(line, raised) ==
    Wire(line, 1, None, None, None,
         IF raised THEN {"success", "error"} ELSE {"success", "result"})

\* One request line served by main.
VTMain ==
    /\ stack = "video-transcribe"
    /\ running
    /\ last = NoCall
    /\ wire = NoWire
    /\ calls < MaxCalls
    /\ \E req \in VTRequests, env \in VTEnv :
         LET r == handle_tool_call(req.tool, req.arguments, req.paramsKind, env)
         IN  /\ ~r.called => env = [ffmpeg |-> "ok", convert |-> "ok", whisper |-> "ok"]
             /\ last' = Handled(req, r)
             /\ wire' = VTOutput("request", r.escaped)
    /\ calls' = calls + 1
    /\ UNCHANGED <<extVars, stack, gwVars, token_file, notionVars, running>>

\* The other lines main's `for line in sys.stdin` meets: a line that is not
\* JSON and JSON that is not an object raise inside the try and are answered;
\* bytes that are not UTF-8 raise UnicodeDecodeError in the for statement,
\* outside the try, under the strict error handler (the process ends with a
\* traceback) and reach json.loads as surrogates under surrogateescape; the
\* end of input ends the loop.
VTLines == {"malformed", "not_object", "undecodable", "eof"}

VTMainLine ==
    /\ stack = "video-transcribe"
    /\ running
    /\ last = NoCall
    /\ wire = NoWire
    /\ \E line \in VTLines, errors \in {"strict", "surrogateescape"} :
         /\ line # "undecodable" => errors = "strict"
         /\ running' = ~(line = "eof" \/ (line = "undecodable" /\ errors = "strict"))
         /\ wire' =
              IF line = "eof" \/ (line = "undecodable" /\ errors = "strict")
              THEN Wire(line, 0, None, None, None, {})
              ELSE VTOutput(line, TRUE)
    /\ UNCHANGED <<extVars, stack, calls, last, gwVars, token_file, notionVars>>

(* ------------------------------ Google AI ------------------------------ *)

GAITools == <<
    Tool("generate_image",
         [prompt |-> "string", model |-> "string", aspect |-> "string", output |-> "string"],
         <<"prompt">>),
    Tool("generate_video",
         [prompt |-> "string", fast |-> "boolean", output |-> "string"], <<"prompt">>) >>

\* call_tool of the Google AI server; env.returncode is the exit status of the
\* node subprocess (0 or 1).
gai_call_tool(name, arguments, env) ==
    LET what == IF name = "generate_image" THEN "Image" ELSE "Video"
        inCmd == IF name = "generate_image" THEN {"prompt", "model", "aspect", "output"}
                 ELSE {"prompt", "output"}
    IN
    IF name \notin {GAITools[i].name : i \in 1..Len(GAITools)}
    THEN Result(<<"Unknown tool: ", name>>, FALSE)
    ELSE IF "prompt" \notin DOMAIN arguments
    THEN Result(<<"Error: ">> \o KeyErrorText("prompt"), FALSE)
    ELSE IF \E k \in inCmd \cap DOMAIN arguments : arguments[k].type # "string"
    THEN Result(<<"Error: ", "expected str, bytes or os.PathLike object">>, FALSE)
    ELSE [Result(IF env.returncode = 0
                 THEN <<what, " generated successfully!", "File: ", "Prompt: ">>
                 ELSE <<what, " generation failed:", VendorErrorText>>, FALSE)
            EXCEPT !.called = TRUE,
                   !.outcome = IF env.returncode = 0 THEN "ok" ELSE "nonzero"]

GAIRequests ==
    UNION {{Request(GAITools[i].name, a) : a \in ArgChoices(GAITools[i])} :
             i \in 1..Len(GAITools)}
    \cup {Request(UnlistedTool, NoArgs)}

\* One tools/call request served by the Google AI server's call_tool.
GAICallTool ==
    /\ stack = "google-ai"
    /\ last = NoCall
    /\ calls < MaxCalls
    /\ \E req \in GAIRequests, returncode \in {0, 1} :
         LET r == gai_call_tool(req.tool, req.arguments, [returncode |-> returncode])
         IN  /\ ~r.called => returncode = 0
             /\ last' = Handled(req, r)
    /\ calls' = calls + 1
    /\ UNCHANGED <<extVars, stack, gwVars, token_file, notionVars, ioVars>>

(* ------------------------------ Whisper -------------------------------- *)

WhisperTools == <<
    Tool("whisper_transcribe",
         [audio_path |-> "string", model |-> "string", language |-> "string",
          task |-> "string", word_timestamps |-> "boolean", output |-> "string",
          output_format |-> "string"],
         <<"audio_path">>),
    Tool("whisper_list_models", NoArgs, <<>>) >>

\* The model sizes requests name; any other name makes WhisperModel raise.
Sizes == {"tiny", "base"}

DEFAULT_MODEL == "base"

\* A WhisperModel object: its size and its rank among the objects
\* constructed for that size in this process.
Instance(model_size, w) ==
    [acct |-> model_size, gen |-> w.loads[model_size] + 1, ok |-> TRUE]

\* get_model constructing a WhisperModel on every call.
get_model_always_constructs(model_size, w, env) ==
    IF model_size \notin Sizes \/ env.construct = "raise"
    THEN [w |-> w, ret |-> NoHandle, raised |-> TRUE, built |-> TRUE]
    ELSE [w |-> [cache |-> With(w.cache, model_size, Instance(model_size, w)),
                 loads |-> [w.loads EXCEPT ![model_size] = @ + 1]],
          ret |-> Instance(model_size, w), raised |-> FALSE, built |-> TRUE]

\* get_model; w = [cache, loads]. The cache entry is assigned after the
\* constructor has returned.
get_model(model_size, w, env) ==
    IF model_size \in DOMAIN w.cache
    THEN [w |-> w, ret |-> w.cache[model_size], raised |-> FALSE, built |-> FALSE]
    ELSE IF model_size \notin Sizes \/ env.construct = "raise"
    THEN [w |-> w, ret |-> NoHandle, raised |-> TRUE, built |-> TRUE]
    ELSE [w |-> [cache |-> With(w.cache, model_size, Instance(model_size, w)),
                 loads |-> [w.loads EXCEPT ![model_size] = @ + 1]],
          ret |-> Instance(model_size, w), raised |-> FALSE, built |-> TRUE]

\* transcribe_audio and the text call_tool makes of its result: env.exists
\* says whether the audio file is there, env.construct and env.transcribe are
\* "ok" or "raise".
whisper_transcribe(arguments, w, env, m) ==
    IF m.raised
    THEN [w |-> m.w]
         @@ [Result(<<"Error: ", VendorErrorText>>, FALSE)
               EXCEPT !.outcome = "construct_raise", !.used = {"exists", "construct"}]
    ELSE [w |-> m.w]
         @@ [Result(IF env.transcribe = "ok"
                       /\ \A k \in DOMAIN arguments \cap {"language", "task", "output"} :
                             arguments[k].type = "string"
                    THEN <<"Transcription (", m.ret.acct, " model):", "Language: ",
                           "Duration: ", "text">>
                    ELSE <<"Error: ", VendorErrorText>>, FALSE)
               EXCEPT !.called = TRUE, !.got = m.ret,
                      !.outcome = IF env.transcribe = "ok" THEN "ok" ELSE "raise",
                      !.used = {"exists", "transcribe"}
                               \cup (IF m.built THEN {"construct"} ELSE {})]

\* call_tool of the Whisper server.
whisper_call_tool(name, arguments, w, env) ==
    CASE name = "whisper_transcribe" ->
            IF "audio_path" \notin DOMAIN arguments
            THEN [w |-> w] @@ Result(<<"Error: ">> \o KeyErrorText("audio_path"), FALSE)
            ELSE IF arguments["audio_path"].type # "string"
            THEN [w |-> w] @@ Result(<<"Error: ", "expected str, bytes or os.PathLike object">>, FALSE)
            ELSE IF ~env.exists
            THEN [w |-> w]
                 @@ [Result(<<"Error: ", "Audio file not found: ", "path">>, FALSE)
                       EXCEPT !.used = {"exists"}]
            ELSE whisper_transcribe(arguments, w, env,
                     get_model(IF "model" \in DOMAIN arguments
                               THEN arguments["model"].val ELSE DEFAULT_MODEL, w, env))
      [] name = "whisper_list_models" ->
            [w |-> w] @@ Result(<<"Available Whisper Models:", "models">>, FALSE)
      [] OTHER -> [w |-> w] @@ Result(<<"Unknown tool: ", name>>, FALSE)

WhisperEnv == [exists : BOOLEAN, construct : {"ok", "raise"}, transcribe : {"ok", "raise"}]

WhisperRequests ==
    UNION {{Request(WhisperTools[i].name, a) : a \in ArgChoices(WhisperTools[i])} :
             i \in 1..Len(WhisperTools)}
    \cup {Request("whisper_transcribe",
                  [audio_path |-> Val("string"), model |-> [type |-> "string", val |-> s]]) :
            s \in Sizes}
    \cup {Request(UnlistedTool, NoArgs)}

\* The result r of a request leaves the server with the cache as the call
\* left it.
WhisperServe(req, env, r) ==
    /\ "exists" \notin r.used => env.exists
    /\ "construct" \notin r.used => env.construct = "ok"
    /\ "transcribe" \notin r.used => env.transcribe = "ok"
    /\ model_cache' = r.w.cache
    /\ loads' = r.w.loads
    /\ last' = Handled(req, r)

\* One tools/call request served by the Whisper server's call_tool.
WhisperCallTool ==
    /\ stack = "whisper"
    /\ last = NoCall
    /\ calls < MaxCalls
    /\ \E req \in WhisperRequests, env \in WhisperEnv :
         WhisperServe(req, env,
                      whisper_call_tool(req.tool, req.arguments,
                                        [cache |-> model_cache, loads |-> loads], env))
    /\ calls' = calls + 1
    /\ UNCHANGED <<stack, gwVars, token_file, notionVars, ioVars, officeVars, dataVars>>

(* ------------------------------ MS Office ------------------------------ *)

\* The one tool of the server that is modelled.
OfficeTools == <<
    Tool("docx_insert_paragraphs",
         [path |-> "string", after_text |-> "string", paragraphs |-> "array",
          output |-> "string"],
         <<"path", "after_text", "paragraphs">>) >>

\* `after_text in para.text`, for the texts paragraphs have here.
In(after_text, text) ==
    \/ after_text = text
    \/ text = "ab" /\ after_text \in {"a", "b"}

\* Document(path): the body's paragraph elements, in document order.
Document(file) == [i \in 1..Len(file.paras) |-> [id |-> i, text |-> file.paras[i]]]

\* The first element of doc.paragraphs whose text holds after_text, or 0
\* (anchor_elem is None).
RECURSIVE anchor(_, _, _)
anchor(body, after_text, i) ==
    IF i > Len(body) THEN 0
    ELSE IF In(after_text, body[i].text) THEN body[i].id
    ELSE anchor(body, after_text, i + 1)

IndexOf(body, id) == CHOOSE i \in 1..Len(body) : body[i].id = id

\* doc.add_paragraph(text): a new element at the end of the body.
add_paragraph(body, text) == Append(body, [id |-> Len(body) + 1, text |-> text])

\* current.addnext(new): the element `new` is moved to follow `current`.
addnext(body, current, new) ==
    LET rest == SelectSeq(body, LAMBDA e : e.id # new)
        i == IndexOf(rest, current)
    IN  SubSeq(rest, 1, i) \o <<body[IndexOf(body, new)]>> \o SubSeq(rest, i + 1, Len(rest))

\* The loop with every new paragraph placed after the anchor itself.
insert_unchained(body, current, texts) ==
    LET i == IndexOf(body, current)
    IN  SubSeq(body, 1, i)
        \o [k \in 1..Len(texts) |->
              [id |-> Len(body) + k, text |-> texts[Len(texts) + 1 - k]]]
        \o SubSeq(body, i + 1, Len(body))

\* The loop of docx_insert_paragraphs: each new paragraph is appended, moved
\* after `current`, and becomes `current`.
RECURSIVE insert_chained(_, _, _)
insert_chained(body, current, texts) ==
    IF texts = <<>> THEN body
    ELSE insert_chained(addnext(add_paragraph(body, Head(texts)), current, Len(body) + 1),
                        Len(body) + 1, Tail(texts))

\* doc.save: the paragraphs' texts in body order.
Saved(body) == [exists |-> TRUE, paras |-> [i \in 1..Len(body) |-> body[i].text]]

\* docx_insert_paragraphs; f = [document, output_file], env.save is "ok" or
\* "raise" (doc.save cannot write the file).
docx_insert_paragraphs(arguments, f, env) ==
    LET after_text == arguments["after_text"].val
        doc == Document(f.document)
        anchor_elem == anchor(doc, after_text, 1)
        to_output == "output" \in DOMAIN arguments
    IN  IF ~f.document.exists
        THEN [f |-> f] @@ Result(<<"Error: File not found: ", "path">>, FALSE)
        ELSE IF anchor_elem = 0
        THEN [f |-> f]
             @@ Result(<<"Error: Could not find paragraph containing '", after_text, "'">>,
                       FALSE)
        ELSE IF env.save = "raise"
        THEN [f |-> f]
             @@ [Result(<<"Error: ", VendorErrorText>>, FALSE)
                   EXCEPT !.outcome = "raise", !.used = {"save"}]
        ELSE [f |-> IF to_output
                    THEN [f EXCEPT !.output_file =
                            Saved(insert_chained(doc, anchor_elem, arguments["paragraphs"].val))]
                    ELSE [f EXCEPT !.document =
                            Saved(insert_chained(doc, anchor_elem, arguments["paragraphs"].val))]]
             @@ [Result(<<"Inserted ", "n", " paragraph(s) after '", after_text,
                          "Saved to: ", IF to_output THEN "output" ELSE "path">>, FALSE)
                   EXCEPT !.outcome = "ok", !.used = {"save"}]

\* The paragraph texts of the documents a behaviour starts from.
Texts == {"a", "b", "ab"}

MaxParas == 2

OfficeDocuments ==
    {[exists |-> FALSE, paras |-> <<>>]}
    \cup {[exists |-> TRUE, paras |-> p] :
            p \in UNION {[1..n -> Texts] : n \in 0..MaxParas}}

OfficeRequests ==
    {Request("docx_insert_paragraphs",
             [path |-> Val("string"), after_text |-> [type |-> "string", val |-> t],
              paragraphs |-> [type |-> "array", val |-> p]] @@ o) :
        t \in {"a", "b", "c"},
        p \in {<<>>, <<"x">>, <<"x", "a">>, <<"a", "x">>},
        o \in {NoArgs, [output |-> Val("string")]}}

\* The result r of a request leaves the server with the files as the call
\* left them.
OfficeServe(req, env, r) ==
    /\ "save" \notin r.used => env.save = "ok"
    /\ document' = r.f.document
    /\ output_file' = r.f.output_file
    /\ last' = Handled(req, r)

\* One tools/call request for docx_insert_paragraphs.
OfficeCallTool ==
    /\ stack = "ms-office"
    /\ last = NoCall
    /\ calls < MaxCalls
    /\ \E req \in OfficeRequests, save \in {"ok", "raise"} :
         OfficeServe(req, [save |-> save],
                     docx_insert_paragraphs(req.arguments,
                                            [document |-> document,
                                             output_file |-> output_file],
                                            [save |-> save]))
    /\ calls' = calls + 1
    /\ UNCHANGED <<stack, gwVars, token_file, notionVars, ioVars, whisperVars, dataVars>>

(* ---------------------------- Data analysis ---------------------------- *)

\* list_tools.
DATools == <<
    Tool("data_load_csv", [path |-> "string", name |-> "string"], <<"path">>),
    Tool("data_load_excel", [path |-> "string", name |-> "string", sheet |-> "string"],
         <<"path">>),
    Tool("data_load_json", [path |-> "string", name |-> "string"], <<"path">>),
    Tool("data_describe", [name |-> "string"], <<"name">>),
    Tool("data_query", [name |-> "string", query |-> "string"], <<"name", "query">>),
    Tool("data_transform",
         [name |-> "string", operations |-> "array", output_name |-> "string"],
         <<"name", "operations">>),
    Tool("data_aggregate",
         [name |-> "string", group_by |-> "array", aggregations |-> "object"],
         <<"name", "group_by", "aggregations">>),
    Tool("data_chart",
         [name |-> "string", chart_type |-> "string", x |-> "string", y |-> "string",
          title |-> "string", output |-> "string"],
         <<"name", "chart_type", "x", "y">>),
    Tool("data_export", [name |-> "string", output |-> "string", format |-> "string"],
         <<"name", "output">>),
    Tool("data_list", NoArgs, <<>>) >>

\* The missing value of a cell.
NaN == -1

\* A column label that is not a str: the integer 0 of the labels read_json
\* and read_excel give a table without str headers.
IntLabel == "int 0"

\* A pd.DataFrame: its column labels in order and its rows, each row a
\* function from label to cell.
Frame(columns, rows) == [columns |-> columns, rows |-> rows]

\* What a pandas reader returns here: env.read = "str" is a table with the
\* headers a and b, env.read = "int" one whose only label is the integer 0.
ReadFrame(env) ==
    IF env.read = "int" THEN Frame(<<IntLabel>>, << (IntLabel :> 1) >>)
    ELSE Frame(<<"a", "b">>, << [a |-> 1, b |-> 0], [a |-> 0, b |-> NaN] >>)

\* The files expand_path(path).exists() finds.
Files == {"dir/table"}

\* Path.stem: the last component of the path.
stem(path) ==
    CASE path = "dir/table" -> "table"
      [] path = "dir/missing" -> "missing"
      [] OTHER -> path

\* ', '.join(columns) raises TypeError on a label that is not a str.
JoinRaises(columns) == IntLabel \in Range(columns)

JoinErrorText == "sequence item 0: expected str instance, int found"

NoFrameText(name) == <<"Error: ", "No dataframe named '", name, "'. Load data first.">>

\* load_csv, load_excel and load_json with the text call_tool makes of their
\* result; d is _dataframes.  The table is stored before call_tool joins the
\* column labels into the text.
load_file(arguments, d, env) ==
    LET path == arguments["path"].val
        df == ReadFrame(env)
        df_name == IF "name" \in DOMAIN arguments /\ arguments["name"].val # ""
                   THEN arguments["name"].val ELSE stem(path)
    IN  IF path \notin Files
        THEN [d |-> d] @@ Result(<<"Error: ", "File not found: ", path>>, FALSE)
        ELSE IF env.read = "raise"
        THEN [d |-> d]
             @@ [Result(<<"Error: ", VendorErrorText>>, FALSE)
                   EXCEPT !.outcome = "raise", !.used = {"read"}]
        ELSE [d |-> With(d, df_name, df)]
             @@ [Result(IF JoinRaises(df.columns) THEN <<"Error: ", JoinErrorText>>
                        ELSE <<"Loaded '", df_name, "': ", "rows, columns, preview">>, FALSE)
                   EXCEPT !.outcome = "ok", !.used = {"read"}]

\* DataFrame.query for the expressions of this model: "a > 0" keeps the rows
\* whose a is positive; a name that is no column raises.
df_query(df, query) ==
    LET Pos(r) == r["a"] > 0
    IN  IF query = "a > 0" /\ "a" \in Range(df.columns)
        THEN [raised |-> FALSE, df |-> Frame(df.columns, SelectSeq(df.rows, Pos))]
        ELSE [raised |-> TRUE, df |-> df]

\* DataFrame.sort_values(by, ascending): missing values go last.
RECURSIVE sort_values(_, _, _)
sort_values(rows, by, ascending) ==
    IF rows = <<>> THEN <<>>
    ELSE LET Before(u, v) == IF u = NaN THEN FALSE
                             ELSE IF v = NaN THEN TRUE
                             ELSE IF ascending THEN u < v ELSE u > v
             i == CHOOSE i \in 1..Len(rows) :
                    \A j \in 1..Len(rows) : ~Before(rows[j][by], rows[i][by])
         IN  <<rows[i]>> \o sort_values(SubSeq(rows, 1, i - 1) \o SubSeq(rows, i + 1, Len(rows)),
                                        by, ascending)

\* df.groupby(by).agg(agg).reset_index() for one grouping column and one
\* aggregated column: a row for each value of by[1] in ascending order (rows
\* without one are dropped), holding the sum of the aggregated column's
\* cells that are not missing.
RECURSIVE groupby_agg(_, _, _, _)
groupby_agg(df, by, agg, keys) ==
    LET c == CHOOSE c \in DOMAIN agg : TRUE
        k == CHOOSE k \in keys : \A m \in keys : k <= m
        Cell(r) == IF r[by[1]] = k /\ r[c] # NaN THEN r[c] ELSE 0
        sum[i \in 0..Len(df.rows)] == IF i = 0 THEN 0 ELSE sum[i - 1] + Cell(df.rows[i])
    IN  IF keys = {} THEN <<>>
        ELSE <<(by[1] :> k) @@ (c :> sum[Len(df.rows)])>>
             \o groupby_agg(df, by, agg, keys \ {k})

groupby(df, by, agg) ==
    IF \/ by = <<>> \/ DOMAIN agg = {}
       \/ Range(by) \cup DOMAIN agg \notin SUBSET Range(df.columns)
       \/ Range(by) \cap DOMAIN agg # {}
       \/ \E c \in DOMAIN agg : agg[c] # "sum"
    THEN [raised |-> TRUE, df |-> df]
    ELSE [raised |-> FALSE,
          df |-> Frame(by \o <<CHOOSE c \in DOMAIN agg : TRUE>>,
                       groupby_agg(df, by, agg,
                                   {df.rows[i][by[1]] : i \in 1..Len(df.rows)} \ {NaN}))]

\* One pass of transform_data's loop body: the table after `op`, or raised.
apply_op(df, op) ==
    LET type == IF "type" \in DOMAIN op THEN op["type"] ELSE None
        need(keys) == \A k \in keys : k \in DOMAIN op
        same(rows) == [raised |-> FALSE, df |-> Frame(df.columns, rows)]
        raise == [raised |-> TRUE, df |-> df]
        cols == Range(df.columns)
    IN  CASE "not a dict" \in DOMAIN op -> raise
          [] type = "filter" -> IF need({"query"}) THEN df_query(df, op["query"]) ELSE raise
          [] type = "select" ->
                IF need({"columns"}) /\ Range(op["columns"]) \subseteq cols
                THEN [raised |-> FALSE,
                      df |-> Frame(op["columns"],
                                   [i \in 1..Len(df.rows) |->
                                      [l \in Range(op["columns"]) |-> df.rows[i][l]]])]
                ELSE raise
          [] type = "rename" ->
                IF need({"mapping"})
                THEN LET m == op["mapping"]
                         new(l) == IF l \in DOMAIN m THEN m[l] ELSE l
                         old(l) == CHOOSE o \in cols : new(o) = l
                     IN  [raised |-> FALSE,
                          df |-> Frame([i \in 1..Len(df.columns) |-> new(df.columns[i])],
                                       [i \in 1..Len(df.rows) |->
                                          [l \in {new(o) : o \in cols} |-> df.rows[i][old(l)]]])]
                ELSE raise
          [] type = "sort" ->
                IF need({"by"}) /\ op["by"] \in cols
                THEN same(sort_values(df.rows, op["by"],
                                      IF "ascending" \in DOMAIN op THEN op["ascending"]
                                      ELSE TRUE))
                ELSE raise
          [] type = "dropna" ->
                LET subset == IF "subset" \in DOMAIN op THEN Range(op["subset"]) ELSE cols
                    Whole(r) == \A l \in subset : r[l] # NaN
                IN  IF subset \subseteq cols THEN same(SelectSeq(df.rows, Whole)) ELSE raise
          [] type = "fillna" ->
                IF need({"value"})
                THEN same([i \in 1..Len(df.rows) |->
                             [l \in cols |-> IF df.rows[i][l] = NaN THEN op["value"]
                                             ELSE df.rows[i][l]]])
                ELSE raise
          [] type = "groupby" ->
                IF need({"by", "agg"}) THEN groupby(df, op["by"], op["agg"]) ELSE raise
          [] OTHER -> same(df.rows)

\* transform_data storing what the loop had reached when an operation raised.
RECURSIVE transform_data_stores_on_raise(_, _, _, _)
transform_data_stores_on_raise(df, operations, result_name, d) ==
    IF operations = <<>> \/ apply_op(df, Head(operations)).raised
    THEN [d |-> With(d, result_name, df), raised |-> operations # <<>>, df |-> df,
          name |-> result_name]
    ELSE transform_data_stores_on_raise(apply_op(df, Head(operations)).df, Tail(operations),
                                        result_name, d)

\* transform_data from its loop on; df is the copy of the source the loop has
\* reached, operations the ones still to apply.  The result is stored after
\* the loop.
RECURSIVE transform_data(_, _, _, _)
transform_data(df, operations, result_name, d) ==
    IF operations = <<>>
    THEN [d |-> With(d, result_name, df), raised |-> FALSE, df |-> df, name |-> result_name]
    ELSE IF apply_op(df, Head(operations)).raised
    THEN [d |-> d, raised |-> TRUE, df |-> df, name |-> result_name]
    ELSE transform_data(apply_op(df, Head(operations)).df, Tail(operations), result_name, d)

\* call_tool of the data-analysis server; f = [d, x]: _dataframes and the
\* paths written so far.  env.read is what the pandas reader does, env.plot
\* and env.write are "ok" or "raise" (matplotlib / the DataFrame writer).
data_call_tool(name, arguments, f, env) ==
    LET d == f.d
        miss(keys) == FirstMissing(keys, arguments)
        KeyErr(keys) == [f |-> f] @@ Result(<<"Error: ">> \o KeyErrorText(miss(keys)), FALSE)
        n == arguments["name"].val
        Absent == [f |-> f] @@ Result(NoFrameText(n), FALSE)
        Exc(what) == [f |-> f] @@ [Result(<<"Error: ", VendorErrorText>>, FALSE)
                                        EXCEPT !.outcome = "raise", !.used = what]
        Done(g, text, what) == [f |-> g] @@ [Result(text, FALSE)
                                             EXCEPT !.outcome = "ok", !.used = what]
        cols == Range(d[n].columns)
    IN
    CASE name \in {"data_load_csv", "data_load_excel", "data_load_json"} ->
            IF miss(<<"path">>) # None THEN KeyErr(<<"path">>)
            ELSE LET l == load_file(arguments, d, env)
                 IN  [f |-> [f EXCEPT !.d = l.d]] @@ [k \in ResultKeys |-> l[k]]
      [] name = "data_describe" ->
            IF miss(<<"name">>) # None THEN KeyErr(<<"name">>)
            ELSE IF n \notin DOMAIN d THEN Absent
            ELSE IF d[n].columns = <<>> THEN Exc({})
            ELSE Done(f, <<"Statistics for '", n, "' (", "rows, cols, statistics, missing">>, {})
      [] name = "data_query" ->
            IF miss(<<"name", "query">>) # None THEN KeyErr(<<"name", "query">>)
            ELSE IF n \notin DOMAIN d THEN Absent
            ELSE IF df_query(d[n], arguments["query"].val).raised THEN Exc({})
            ELSE Done(f, <<"Query: ", arguments["query"].val, "Matched: ", "result">>, {})
      [] name = "data_transform" ->
            IF miss(<<"name", "operations">>) # None THEN KeyErr(<<"name", "operations">>)
            ELSE IF n \notin DOMAIN d THEN Absent
            ELSE IF arguments["operations"].type # "array" THEN Exc({})
            ELSE LET t == transform_data(
                            d[n], arguments["operations"].val,
                            IF "output_name" \in DOMAIN arguments
                               /\ arguments["output_name"].val # ""
                            THEN arguments["output_name"].val ELSE n \o "_transformed", d)
                 IN  IF t.raised
                     THEN [f |-> [f EXCEPT !.d = t.d]]
                          @@ [Result(<<"Error: ", VendorErrorText>>, FALSE)
                                EXCEPT !.outcome = "raise"]
                     ELSE Done([f EXCEPT !.d = t.d],
                             IF JoinRaises(t.df.columns) THEN <<"Error: ", JoinErrorText>>
                             ELSE <<"Transformed data saved as '", t.name, "': ",
                                    "rows, columns, preview">>, {})
      [] name = "data_aggregate" ->
            IF miss(<<"name", "group_by", "aggregations">>) # None
            THEN KeyErr(<<"name", "group_by", "aggregations">>)
            ELSE IF n \notin DOMAIN d THEN Absent
            ELSE IF groupby(d[n], arguments["group_by"].val, arguments["aggregations"].val).raised
            THEN Exc({})
            ELSE Done(f, <<"Aggregation by ", "group_by", "result">>, {})
      [] name = "data_chart" ->
            IF miss(<<"name", "chart_type", "x", "y">>) # None
            THEN KeyErr(<<"name", "chart_type", "x", "y">>)
            ELSE IF n \notin DOMAIN d THEN Absent
            ELSE IF \/ /\ arguments["chart_type"].val \in {"bar", "line", "scatter", "pie"}
                       /\ arguments["x"].val \notin cols
                    \/ /\ arguments["chart_type"].val \in
                            {"bar", "line", "scatter", "pie", "histogram", "box"}
                       /\ arguments["y"].val \notin cols
            THEN Exc({})
            ELSE IF env.plot = "raise" THEN Exc({"plot"})
            ELSE Done([f EXCEPT !.x = @ \cup {IF "output" \in DOMAIN arguments
                                              /\ arguments["output"].val # ""
                                            THEN arguments["output"].val
                                            ELSE "charts/<chart_type>-chart-<timestamp>.png"}],
                    <<"Chart created: ", "title", "Saved to: ", "output_path">>, {"plot"})
      [] name = "data_export" ->
            IF miss(<<"name", "output">>) # None THEN KeyErr(<<"name", "output">>)
            ELSE IF n \notin DOMAIN d THEN Absent
            ELSE IF "format" \in DOMAIN arguments
                    /\ arguments["format"].val \notin {"csv", "excel", "json", "parquet"}
            THEN Done(f, <<"Exported '", n, "' (", "rows", ") to: ", "output_path">>, {})
            ELSE IF env.write = "raise" THEN Exc({"write"})
            ELSE Done([f EXCEPT !.x = @ \cup {arguments["output"].val}],
                    <<"Exported '", n, "' (", "rows", ") to: ", "output_path">>, {"write"})
      [] name = "data_list" ->
            IF DOMAIN d = {}
            THEN [f |-> f]
                 @@ Result(<<"No dataframes loaded. Use data_load_csv, data_load_excel, or data_load_json first.">>,
                           FALSE)
            ELSE IF \E m \in DOMAIN d : JoinRaises(d[m].columns)
            THEN [f |-> f] @@ Result(<<"Error: ", JoinErrorText>>, FALSE)
            ELSE [f |-> f]
                 @@ Result(<<"Loaded dataframes:">>
                           \o (CHOOSE s \in [1..Cardinality(DOMAIN d) -> DOMAIN d] :
                                 Range(s) = DOMAIN d), FALSE)
      [] OTHER -> [f |-> f] @@ Result(<<"Unknown tool: ", name>>, FALSE)

DAEnv == [read : {"str", "int", "raise"}, plot : {"ok", "raise"}, write : {"ok", "raise"}]

\* The operation lists data_transform is asked to apply; the last one holds a
\* str where an object is expected.
Operations == {
    <<>>,
    <<[type |-> "filter", query |-> "a > 0"]>>,
    <<[type |-> "filter", query |-> "z > 0"]>>,
    <<[type |-> "filter"]>>,
    <<[type |-> "select", columns |-> <<"b">>]>>,
    <<[type |-> "select", columns |-> <<"b">>], [type |-> "filter", query |-> "a > 0"]>>,
    <<[type |-> "rename", mapping |-> [a |-> "c"]]>>,
    <<[type |-> "sort", by |-> "a", ascending |-> FALSE]>>,
    <<[type |-> "dropna"]>>,
    <<[type |-> "fillna", value |-> 0]>>,
    <<[type |-> "groupby", by |-> <<"a">>, agg |-> [b |-> "sum"]]>>,
    <<[type |-> "sample"]>>,
    <<("not a dict" :> TRUE)>> }

Str(v) == [type |-> "string", val |-> v]

DARequests ==
    LET Full == [path |-> Str("dir/table"), name |-> Str("table"), query |-> Str("a > 0"),
                 operations |-> [type |-> "array", val |-> <<>>],
                 group_by |-> [type |-> "array", val |-> <<"a">>],
                 aggregations |-> [type |-> "object", val |-> [b |-> "sum"]],
                 chart_type |-> Str("bar"), x |-> Str("a"), y |-> Str("b"),
                 output |-> Str("out.csv")]
    IN
    UNION {{Request(DATools[i].name,
                    [j \in Range(DATools[i].required) \ {k} |-> Full[j]]) :
              k \in Range(DATools[i].required)} : i \in 1..Len(DATools)}
    \cup {Request(t, [path |-> Str(p)] @@ nm) :
            t \in {"data_load_csv", "data_load_excel", "data_load_json"},
            p \in {"dir/table", "dir/missing"},
            nm \in {NoArgs, [name |-> Str("n")], [name |-> Str("")]}}
    \cup {Request("data_describe", [name |-> Str(n)]) : n \in {"table", "n", "nowhere"}}
    \cup {Request("data_query", [name |-> Str(n), query |-> Str(q)]) :
            n \in {"table", "nowhere"}, q \in {"a > 0", "z > 0"}}
    \cup {Request("data_transform",
                  [name |-> Str(n), operations |-> [type |-> "array", val |-> ops]] @@ o) :
            n \in {"table", "nowhere"}, ops \in Operations,
            o \in {NoArgs} \cup {[output_name |-> Str(v)] : v \in {"", "out", "table"}}}
    \cup {Request("data_aggregate",
                  [name |-> Str(n), group_by |-> [type |-> "array", val |-> <<g>>],
                   aggregations |-> [type |-> "object", val |-> [b |-> "sum"]]]) :
            n \in {"table", "nowhere"}, g \in {"a", "z"}}
    \cup {Request("data_chart",
                  [name |-> Str(n), chart_type |-> Str(c), x |-> Str("a"), y |-> Str("b")]) :
            n \in {"table", "nowhere"}, c \in {"bar", "radar"}}
    \cup {Request("data_export", [name |-> Str(n), output |-> Str("out.csv")] @@ fmt) :
            n \in {"table", "nowhere"}, fmt \in {NoArgs, [format |-> Str("zip")]}}
    \cup {Request("data_list", NoArgs), Request(UnlistedTool, NoArgs)}

\* The result r of a request leaves the server with the store and the files
\* as the call left them.  read_csv labels every column with a str.
DAServe(req, env, r) ==
    /\ "read" \notin r.used => env.read = "str"
    /\ "plot" \notin r.used => env.plot = "ok"
    /\ "write" \notin r.used => env.write = "ok"
    /\ req.tool = "data_load_csv" => env.read # "int"
    /\ dataframes' = r.f.d
    /\ exported' = r.f.x
    /\ last' = Handled(req, r)

\* One tools/call request served by the data-analysis server's call_tool.
DACallTool ==
    /\ stack = "data-analysis"
    /\ last = NoCall
    /\ calls < MaxCalls
    /\ \E req \in DARequests, env \in DAEnv :
         DAServe(req, env,
                 data_call_tool(req.tool, req.arguments,
                                [d |-> dataframes, x |-> exported], env))
    /\ calls' = calls + 1
    /\ UNCHANGED <<stack, gwVars, token_file, notionVars, ioVars, whisperVars, officeVars>>

(* --------------------------- specification ---------------------------- *)

Stacks == {"google", "zoho", "notion", "video-transcribe", "google-ai", "whisper",
           "ms-office", "data-analysis"}

Init ==
    /\ stack \in Stacks
    /\ calls = 0
    /\ last = NoCall
    /\ ACCOUNTS_DIR \in {<<>>} \cup
         (IF stack = "google"
          THEN {s \in {<<a>> : a \in Accounts} \cup (Accounts \X Accounts) :
                  Cardinality(Range(s)) = Len(s)}
          ELSE {})
    /\ current_account = None
    /\ cache = [s \in Slots |-> NoHandle]
    /\ switches = 0
    /\ token_file \in {NoArgs} \cup (IF stack = "zoho" THEN ZohoTokens ELSE {})
    /\ ENV \in [NOTION_API_KEY : IF stack = "notion" THEN BOOLEAN ELSE {FALSE},
                 aliases : {NoArgs} \cup
                           (IF stack = "notion" THEN {[default |-> "id-1"]} ELSE {})]
    /\ notion_client = FALSE
    /\ databases = [loaded |-> FALSE, dbs |-> NoArgs]
    /\ DATABASES_PATH \in {[exists |-> FALSE, dbs |-> NoArgs]} \cup
         (IF stack = "notion" THEN {[exists |-> TRUE, dbs |-> [tasks |-> "id-1"]]} ELSE {})
    /\ running = TRUE
    /\ wire = NoWire
    /\ model_cache = NoArgs
    /\ loads = [s \in Sizes |-> 0]
    /\ document \in IF stack = "ms-office" THEN OfficeDocuments
                     ELSE {[exists |-> FALSE, paras |-> <<>>]}
    /\ output_file = [exists |-> FALSE, paras |-> <<>>]
    /\ dataframes = NoArgs
    /\ exported = {}

Next ==
    \/ GWCallTool
    \/ Respond
    \/ ZohoCallTool
    \/ ZohoAuthenticate
    \/ NotionCallTool
    \/ VTMain
    \/ GAICallTool
    \/ ZohoMain
    \/ VTMainLine
    \/ NotionSetApiKey
    \/ WhisperCallTool
    \/ OfficeCallTool
    \/ DACallTool
    \/ GWAddAccount

Spec == Init /\ [][Next]_vars

(* ------------------------------ properties ---------------------------- *)

\* The tools the server of stack s lists.
ToolsOf(s) ==
    CASE s = "google" -> GWTools
      [] s = "zoho" -> ZohoTools
      [] s = "notion" -> NotionTools
      [] s = "video-transcribe" -> VTTools
      [] s = "whisper" -> WhisperTools
      [] s = "ms-office" -> OfficeTools
      [] s = "data-analysis" -> DATools
      [] OTHER -> GAITools

Listed(s, name) == \E i \in 1..Len(ToolsOf(s)) : ToolsOf(s)[i].name = name

Schema(s, name) == CHOOSE t \in Range(ToolsOf(s)) : t.name = name

\* The last request named a listed tool and carried JSON objects.
WellFormedCall ==
    /\ last # NoCall
    /\ Listed(stack, last.tool)
    /\ last.paramsKind = "map"
    /\ last.argsKind = "map"

\* The first required key the last request left out, or None.
MissingRequired == FirstMissing(Schema(stack, last.tool).required, last.arguments)

\* The declared keys the last request sent with a value of another type.
WrongTyped ==
    {k \in DOMAIN last.arguments \cap DOMAIN Schema(stack, last.tool).properties :
        last.arguments[k].type # Schema(stack, last.tool).properties[k]}

\* The last call did not do what it was asked to: an exception escaped, the
\* text opens as the servers' error texts do, or the vendor operation failed.
Failed ==
    \/ last.escaped
    \/ last.outcome \in {"http_error", "raise", "nonzero", "error"}
    \/ /\ last.text # <<>>
       /\ Head(last.text) \in
             {"Error: ", "Unknown tool: ", "error", "success: False",
              "Error: Not authenticated. Please run authentication first:"}

\* C1: after a successful account_switch, every handle the getters return or
\* keep cached was constructed after that switch, from the credential paths of
\* the account now active.
C1_HandlesBuiltAfterSwitch ==
    (stack = "google" /\ switches > 0) =>
        /\ \A s \in Slots :
             cache[s] # NoHandle =>
                 cache[s].gen = switches /\ cache[s].acct = current_account
        /\ \A h \in {last.got, last.gotAuth} :
             h # NoHandle => h.gen = switches /\ h.acct = current_account

\* A third call fetched the calendar client after a switch to "work".
C1_FetchedAfterSwitch ==
    /\ stack = "google"
    /\ switches = 1
    /\ calls = 3
    /\ last.tool = "calendar_list"
    /\ last.got = [acct |-> "work", gen |-> 1, ok |-> TRUE]
    /\ last.gotAuth = [acct |-> "work", gen |-> 1, ok |-> TRUE]

\* C2: every cached handle was built from the credential paths of the account
\* get_current_account reports (and has stored in _current_account).
C2_CacheMatchesCurrentAccount ==
    (stack = "google" /\ current_account # None) =>
        \A s \in Slots : cache[s] # NoHandle => cache[s].acct = current_account

\* C3: the dispatcher (call_tool, handle_request) returns a result for every
\* request; no exception escapes it.
C3_NoExceptionEscapes == stack \in {"google", "zoho"} => ~last.escaped

\* C4: a call naming a tool the server does not list ends in a Failure whose
\* message holds 'Unknown tool: ' and the name, in every server state.
C4_UnknownToolReported ==
    (stack \in {"zoho", "notion", "video-transcribe"} /\ last.tool = UnlistedTool) =>
        /\ last.isError
        /\ Contains(last.text, "Unknown tool: ")
        /\ Contains(last.text, last.tool)

\* C5: a result carries the error flag exactly when it is a failure.
C5_ErrorFlagMarksFailures ==
    (stack \in {"google", "zoho", "video-transcribe"} /\ last # NoCall) =>
        (last.isError <=> Failed)

\* C6: a call that leaves out a required argument ends in a Failure naming
\* that argument, and the vendor operation is not invoked.
C6_MissingArgumentRejected ==
    (stack \in {"google", "zoho"} /\ WellFormedCall /\ MissingRequired # None) =>
        /\ last.isError
        /\ Contains(last.text, MissingRequired)
        /\ ~last.called

\* C7: a call whose argument has another type than its schema declares ends
\* in a Failure naming that argument, and the vendor operation is not invoked;
\* a key the schema does not declare is not a reason to reject the call.
C7_WrongTypeRejected ==
    (stack \in {"google", "zoho"} /\ WellFormedCall /\ MissingRequired = None) =>
        /\ WrongTyped # {} =>
              /\ last.isError
              /\ \E k \in WrongTyped : Contains(last.text, k)
              /\ ~last.called
        /\ (WrongTyped = {} /\ "undeclared_key" \in DOMAIN last.arguments
             /\ stack = "google") =>
              (last.called \/ Contains(last.text, AuthErrorText))

\* C8: when the vendor operation of a Google Workspace tool fails, the result
\* is a Failure and never reads as a success.
C8_VendorFailureIsFailure ==
    (stack = "google" /\ last.called /\ last.outcome = "http_error") =>
        /\ last.isError
        /\ ~Contains(last.text, "Draft created successfully. Draft ID: ")
        /\ ~Contains(last.text, "Updated ")

\* C9: when the vendor's HTTP request or the subprocess fails, the result is
\* a Failure whose message holds the underlying error text.
C9_VendorErrorTextKept ==
    (stack \in {"google", "zoho", "google-ai"} /\ last.called
     /\ last.outcome \in {"http_error", "nonzero"}) =>
        /\ last.isError
        /\ Contains(last.text, VendorErrorText)

\* C10 (as stated): one Zoho tool call attempts at most one token refresh; when
\* the retried request fails the call ends in Failure with no request after it.
C10_OneRefreshPerToolCall ==
    stack = "zoho" =>
        /\ last.refreshes <= 1
        /\ last.failedAt > 0 => (last.isError /\ last.http = last.failedAt)

\* C10 (amended): one Zoho tool call attempts at most one token refresh for
\* each _request it makes, each refresh is followed by at most one retry, and
\* when a retried request fails the call ends in Failure with no request after
\* it.
C10_OneRefreshPerRequest ==
    stack = "zoho" =>
        /\ last.refreshes <= Cardinality(last.used \cap {"req1", "req2"})
        /\ last.retries <= last.refreshes
        /\ last.failedAt > 0 => (last.isError /\ last.http = last.failedAt)

\* A tool call refreshed the token during each of its two requests, and the
\* second retry failed.
C10_RefreshedTwice ==
    /\ stack = "zoho"
    /\ last.refreshes = 2
    /\ last.retries = 2
    /\ last.failedAt > 0
    /\ last.isError

\* C11: a Zoho tools/call for a listed tool that starts while the token file
\* holds no access_token ends in a result with the error flag set, whose text
\* tells the user to run the authentication flow, and issues no HTTP request.
C11_UnauthenticatedCallRejected ==
    [][(/\ stack = "zoho"
        /\ calls' = calls + 1
        /\ "access_token" \notin DOMAIN token_file
        /\ Listed("zoho", last'.tool)
        /\ last'.paramsKind = "map")
       => (/\ last'.isError
           /\ ~last'.escaped
           /\ Contains(last'.text,
                       "Error: Not authenticated. Please run authentication first:")
           /\ Contains(last'.text, "authenticate_interactive()")
           /\ last'.http = 0
           /\ last'.refreshes = 0
           /\ ~last'.called
           /\ token_file' = token_file)]_vars

\* A listed tool was refused after an earlier call's refresh had stored a
\* token without access_token.
C11_RefusedAfterTokenLost ==
    /\ stack = "zoho"
    /\ "access_token" \notin DOMAIN token_file
    /\ "error" \in DOMAIN token_file
    /\ last.tool = "zoho_send_email"
    /\ last.isError
    /\ Contains(last.text, "Error: Not authenticated. Please run authentication first:")
    /\ last.http = 0

\* C12: a stdio loop that has ended has ended at the end of its input: no
\* input line of any other kind (a request whose handler fails, a line that
\* is not JSON, an unknown method or tool, undecodable bytes) stops the loop.
C12_LoopEndsOnlyAtEndOfInput ==
    (stack \in {"zoho", "video-transcribe"} /\ ~running) => wire.line = "eof"

\* C13: for every line a stdio loop has read and handled, exactly one response
\* line has been written by the time the loop goes back to read the next line.
C13_OneResponsePerLine ==
    (/\ stack \in {"zoho", "video-transcribe"}
     /\ running
     /\ wire.line \notin {"none", "eof"})
    => wire.written = 1

\* C14: a Google Workspace tool call runs from its first statement to its
\* return with no other call in between (call_tool holds no await), and the
\* handle through which it reaches the vendor belongs to the account that
\* was active (stored in _current_account) when the call started.
C14_SendsThroughActiveAccount ==
    [][(/\ stack = "google"
        /\ calls' = calls + 1
        /\ current_account # None
        /\ last'.called)
       => last'.got.acct = current_account]_vars

C16_SecondReadChangesNothing ==
    (stack = "google" /\ last = NoCall) =>
        \A name \in {"account_list", "account_current"}, env \in Env :
            LET first == call_tool(name, NoArgs,
                                   [current |-> current_account, cache |-> cache], env)
                second == call_tool(name, NoArgs, first.g, env)
            IN  /\ second.text = first.text
                /\ second.isError = first.isError
                /\ second.g = first.g

\* C17: after a notion_db_add or notion_db_remove that reports success,
\* databases.json exists and holds exactly the alias map the server keeps in
\* memory (the empty map after the last alias was removed).
C17_AliasFileMatchesMemory ==
    (/\ stack = "notion"
     /\ last.tool \in {"notion_db_add", "notion_db_remove"}
     /\ last.text # <<>>
     /\ Head(last.text) \in {"Added alias '", "Removed alias '"})
    => (/\ DATABASES_PATH.exists
        /\ DATABASES_PATH.dbs = databases.dbs)

\* C18: each derived identity field (primary email, display name, signature
\* id and content) that the Zoho token file holds with a value is still held
\* with a value after every later step, token refreshes included.
C18_IdentityKeptInTokenFile ==
    [][stack = "zoho"
       => \A k \in {"primary_email", "display_name", "signature_id", "signature_content"}
                    \cap DOMAIN token_file :
            token_file[k] # "null"
            => k \in DOMAIN token_file' /\ token_file'[k] # "null"]_vars

\* C19: every response line the Zoho loop writes for an input line that
\* parsed as a JSON object carries "jsonrpc": "2.0", the id of that request,
\* and exactly one of "result" and "error".
C19_ResponseEnvelope ==
    (/\ stack = "zoho"
     /\ wire.line \in {"initialize", "tools/list", "tools/call", "other_method"}
     /\ wire.written = 1)
    => (/\ wire.jsonrpc = "2.0"
        /\ wire.id = wire.reqId
        /\ Cardinality(wire.keys \cap {"result", "error"}) = 1)

\* C20: a Zoho call in which refresh_token ran leaves the stored
\* refresh_token and account_id as they were, and either the refresh
\* succeeded and the file holds the new access token, or refresh_token raised
\* (the call fails) and the file holds the access token it held before and
\* nothing of the vendor's reply.
C20_RefreshKeepsCredentials ==
    [][(stack = "zoho" /\ calls' = calls + 1 /\ last'.refreshes > 0)
       => (/\ \A k \in {"refresh_token", "account_id"} \cap DOMAIN token_file :
                Get(token_file', k) = token_file[k]
           /\ \/ Get(token_file', "access_token") = "refreshed"
              \/ /\ last'.isError
                 /\ Get(token_file', "access_token") = Get(token_file, "access_token")
                 /\ "error" \notin DOMAIN token_file')]_vars

\* C21: a Notion alias tool (notion_db_list, notion_db_add, notion_db_remove)
\* returns its result whether or not an API key is configured and leaves
\* _client as it was; a call that fails in get_client for want of an API key
\* leaves _client unset, and a call that finds no cached client looks the key
\* up again: it builds the client exactly when the key is configured by then.
C21_AliasToolsNeedNoClient ==
    [][(stack = "notion" /\ calls' = calls + 1)
       => (/\ last'.tool \in {"notion_db_list", "notion_db_add", "notion_db_remove"}
              => (/\ notion_client' = notion_client
                  /\ ~last'.escaped
                  /\ ~Contains(last'.text, "NOTION_API_KEY not set in .env file"))
           /\ Contains(last'.text, "NOTION_API_KEY not set in .env file")
              => (~notion_client' /\ ~last'.called)
           /\ (~notion_client /\ last'.tool \in NotionClientTools)
              => (/\ notion_client' = ENV.NOTION_API_KEY
                  /\ Contains(last'.text, "NOTION_API_KEY not set in .env file")
                       = ~ENV.NOTION_API_KEY))]_vars

C21_AliasAddedWithoutApiKey ==
    /\ stack = "notion"
    /\ ~ENV.NOTION_API_KEY
    /\ last.tool = "notion_db_add"
    /\ Contains(last.text, "Added alias '")
    /\ ~notion_client
    /\ calls > 1

\* C22: across any sequence of Whisper calls, at most one WhisperModel is
\* constructed for each size, the cache holds an entry exactly for the sizes
\* whose construction returned, a cached entry is never replaced, a call
\* that transcribes uses the cached instance of its size, and a call that
\* fails for a missing audio file or for a constructor that raised leaves
\* the cache as it was.
C22_ModelLoadedOncePerSize ==
    [][(stack = "whisper" /\ calls' = calls + 1)
       => (/\ \A s \in Sizes :
                /\ loads'[s] <= 1
                /\ (s \in DOMAIN model_cache') = (loads'[s] = 1)
                /\ s \in DOMAIN model_cache
                   => (model_cache'[s] = model_cache[s] /\ loads'[s] = loads[s])
           /\ last'.called
              => (/\ last'.got.acct \in DOMAIN model_cache'
                  /\ last'.got = model_cache'[last'.got.acct]
                  /\ last'.got.acct = (IF "model" \in DOMAIN last'.arguments
                                       THEN last'.arguments["model"].val
                                       ELSE DEFAULT_MODEL))
           /\ (\/ Contains(last'.text, "Audio file not found: ")
               \/ last'.outcome = "construct_raise")
              => (model_cache' = model_cache /\ loads' = loads))]_vars

C22_ServedFromCache ==
    /\ stack = "whisper"
    /\ last.tool = "whisper_transcribe"
    /\ last.outcome = "ok"
    /\ "construct" \notin last.used
    /\ last.got = [acct |-> "tiny", gen |-> 1, ok |-> TRUE]
    /\ DOMAIN model_cache = {"tiny", "base"}

\* C23: a docx_insert_paragraphs call on a document in which some paragraph
\* holds after_text saves the document with the given paragraphs placed
\* right after the first such paragraph, consecutive and in the order given,
\* every other paragraph keeping its place relative to the others (in the
\* file at `output` when one is named, the original staying as it was); a
\* call on a document with no such paragraph, or on a missing file, returns
\* an error and saves nothing.
C23_InsertedAfterFirstMatchInOrder ==
    [][(stack = "ms-office" /\ calls' = calls + 1)
       => LET old == document.paras
              after_text == last'.arguments["after_text"].val
              paragraphs == last'.arguments["paragraphs"].val
              hits == {i \in 1..Len(old) : In(after_text, old[i])}
              first == CHOOSE i \in hits : \A j \in hits : i <= j
              new == [exists |-> TRUE,
                      paras |-> SubSeq(old, 1, first) \o paragraphs
                                \o SubSeq(old, first + 1, Len(old))]
          IN  IF ~document.exists \/ hits = {}
              THEN /\ Head(last'.text) \in {"Error: File not found: ",
                                             "Error: Could not find paragraph containing '"}
                   /\ document' = document
                   /\ output_file' = output_file
              ELSE IF last'.outcome = "ok"
              THEN IF "output" \in DOMAIN last'.arguments
                   THEN output_file' = new /\ document' = document
                   ELSE document' = new /\ output_file' = output_file
              ELSE document' = document /\ output_file' = output_file]_vars

C23_TwoInsertedAfterFirstMatch ==
    /\ stack = "ms-office"
    /\ last.tool = "docx_insert_paragraphs"
    /\ last.outcome = "ok"
    /\ last.arguments["after_text"].val = "b"
    /\ last.arguments["paragraphs"].val = <<"x", "a">>
    /\ document.paras = <<"ab", "x", "a", "b">>

\* C24: since an account_switch naming an account that is not configured
\* changes nothing, the active account (_current_account) is at all times
\* none or one of the configured accounts, those get_available_accounts
\* finds.
C24_ActiveAccountIsConfigured ==
    stack = "google" => current_account \in {None} \cup Range(get_available_accounts)

\* C25: a Google Workspace call that fails because a required argument is
\* missing (its result is the KeyError of that argument) leaves the server
\* state as it was: _current_account and every cached auth object and
\* client handle.
C25_MissingArgumentChangesNothing ==
    [][(/\ stack = "google"
        /\ calls' = calls + 1
        /\ Listed("google", last'.tool)
        /\ \E k \in Range(Schema("google", last'.tool).required) :
             /\ k \notin DOMAIN last'.arguments
             /\ last'.text = <<"Error: ">> \o KeyErrorText(k))
       => (cache' = cache /\ current_account' = current_account)]_vars

\* C26: after notion_db_add(name, id) has added the alias, resolve_database_id
\* of every upper/lower-case variant of name returns id.
C26_CaseVariantsResolveToAddedId ==
    [][(/\ stack = "notion"
        /\ calls' = calls + 1
        /\ last'.tool = "notion_db_add"
        /\ Len(last'.text) > 0
        /\ Head(last'.text) = "Added alias '")
       => LET name == last'.arguments["name"].val
              variants == IF name \in {"tasks", "Tasks"} THEN {"tasks", "Tasks"}
                          ELSE IF name \in {"ß", "SS"} THEN {"ß", "SS"}
                          ELSE {name}
          IN  \A v \in variants :
                resolve_database_id(v, [client |-> notion_client', databases |-> databases',
                                        file |-> DATABASES_PATH'])
                  = last'.arguments["database_id"].val]_vars

\* C27: in the data-analysis server a describe, query, transform, aggregate,
\* chart or export call naming a dataframe that is not loaded, and a load
\* call for a path that does not exist, return an "Error: ..." text and leave
\* the store unchanged; after a successful load under name n the store holds
\* n and data_list lists n.
C27_UnknownNamesFailAndLoadedNamesAreListed ==
    [][(stack = "data-analysis" /\ calls' = calls + 1)
       => LET loaders == {"data_load_csv", "data_load_excel", "data_load_json"}
              IsError == Len(last'.text) > 0 /\ Head(last'.text) = "Error: "
              listing == data_call_tool("data_list", NoArgs,
                                        [d |-> dataframes', x |-> exported'],
                                        [read |-> "str", plot |-> "ok", write |-> "ok"]).text
          IN  /\ (/\ last'.tool \in {"data_describe", "data_query", "data_transform",
                                     "data_aggregate", "data_chart", "data_export"}
                  /\ "name" \in DOMAIN last'.arguments
                  /\ last'.arguments["name"].val \notin DOMAIN dataframes)
                 => (IsError /\ dataframes' = dataframes)
              /\ (/\ last'.tool \in loaders
                  /\ "path" \in DOMAIN last'.arguments
                  /\ last'.arguments["path"].val \notin Files)
                 => (IsError /\ dataframes' = dataframes)
              /\ (last'.tool \in loaders /\ Len(last'.text) > 1 /\ Head(last'.text) = "Loaded '")
                 => (/\ last'.text[2] \in DOMAIN dataframes'
                     /\ Contains(listing, last'.text[2]))]_vars

\* C28 (amended): data_transform on a loaded dataframe stores its result under
\* output_name, or under "<name>_transformed" when output_name is absent or
\* empty, and leaves every other stored dataframe as it was; when an
\* operation of the list raises, the store is unchanged.
C28_TransformStoresOnlyItsResult ==
    [][(/\ stack = "data-analysis"
        /\ calls' = calls + 1
        /\ last'.tool = "data_transform"
        /\ {"name", "operations"} \subseteq DOMAIN last'.arguments
        /\ last'.arguments["name"].val \in DOMAIN dataframes)
       => LET a == last'.arguments
              ops == a["operations"].val
              res == IF "output_name" \in DOMAIN a /\ a["output_name"].val # ""
                     THEN a["output_name"].val ELSE a["name"].val \o "_transformed"
              run[i \in 0..Len(ops)] ==
                  IF i = 0 THEN [raised |-> FALSE, df |-> dataframes[a["name"].val]]
                  ELSE IF run[i - 1].raised THEN run[i - 1]
                  ELSE apply_op(run[i - 1].df, ops[i])
          IN  IF run[Len(ops)].raised
              THEN dataframes' = dataframes
              ELSE /\ DOMAIN dataframes' = DOMAIN dataframes \cup {res}
                   /\ dataframes'[res] = run[Len(ops)].df
                   /\ \A m \in DOMAIN dataframes \ {res} : dataframes'[m] = dataframes[m]]_vars

\* A transformed table stored under the output_name "out" next to its
\* source, which still holds both rows.
C28_ResultStoredNextToSource ==
    /\ stack = "data-analysis"
    /\ last.tool = "data_transform"
    /\ "output_name" \in DOMAIN last.arguments
    /\ last.arguments["output_name"].val = "out"
    /\ last.arguments["operations"].val = <<[type |-> "filter", query |-> "a > 0"]>>
    /\ {"table", "out"} \subseteq DOMAIN dataframes
    /\ Len(dataframes["table"].rows) = 2
    /\ Len(dataframes["out"].rows) = 1

\* C28 as stated: whenever output_name is given the result is stored under
\* it, and under "<name>_transformed" only when none is given.
C28_StoredUnderGivenOutputName ==
    [][(/\ stack = "data-analysis"
        /\ calls' = calls + 1
        /\ last'.tool = "data_transform"
        /\ Len(last'.text) > 0
        /\ Head(last'.text) = "Transformed data saved as '")
       => LET a == last'.arguments
              res == IF "output_name" \in DOMAIN a THEN a["output_name"].val
                     ELSE a["name"].val \o "_transformed"
          IN  res \in DOMAIN dataframes' /\ res = last'.text[2]]_vars

====
